---- MODULE Spec2Model ----
(***************************************************************************)
(* A model of the go-qrcode encoder: the segment classifier and bit        *)
(* encoder (encoder.go), version selection and the QRCode life cycle       *)
(* (qrcode.go), the bit buffer (bitset.go), the symbol grid and its        *)
(* penalty rules (symbol.go), the GF(256) polynomials (gf_poly.go), the    *)
(* Reed-Solomon encoder (reed_solomon.go), the versions (version.go) and   *)
(* the placement of the modules (regular_symbol.go).                       *)
(*                                                                         *)
(* A function of the source that computes a value and then branches on it  *)
(* is written as two operators: the first computes the values, the second  *)
(* (its name ends in a word for what it decides) takes them as parameters. *)
(***************************************************************************)
EXTENDS Integers, Sequences, FiniteSets, TLC

VARIABLES
    content,    \* New: the content, as runs <<byte, count>> of equal bytes
    level,      \* New: the recovery level
    newResult,  \* New: what New returned, Nil before the call
    encType,    \* dataEncoder: the type of the encoder (its version group)
    encData,    \* dataEncoder: the data handed to encode, as runs
    encOut,     \* dataEncoder: what encode returned and left in d.optimised
    rsBytes,    \* reedsolomon: the bytes the data was made of
    rsData,     \* reedsolomon: the Bitset handed to Encode
    rsNumEC,    \* reedsolomon: the number of error correction bytes
    rsResult,   \* reedsolomon: what Encode returned, Nil before the call
    sym,        \* symbol: the symbol
    symWritten, \* symbol: the modules written so far
    symInRange, \* symbol: whether every write was inside the symbol
    symWrites,  \* symbol: the number of writes so far
    qrInput,    \* QRCode: the content and level New was called with
    qrNewErr,   \* QRCode: the error New returned
    qrc,        \* QRCode: the QRCode q that New returned, Nil when none
    qrTwin,     \* QRCode: a second QRCode of the same content and level
    qrTwinOut,  \* QRCode: what the render of the second QRCode gave
    qrRenders,  \* QRCode: the number of renders of q so far
    qrFirst,    \* QRCode: what the first render of q gave
    qrLast,     \* QRCode: what the last render of q gave
    dtQ,        \* data: the QRCode whose data is padded and split
    dtOrig,     \* data: the data of the QRCode before the padding
    dtPadErr,   \* data: the error of addPadding, Nil before the call
    dtOut,      \* data: what encodeBlocks returned, Nil before the call
    bsBufs,     \* bitset: the Bitsets src and cln, cln Nil before Clone
    bsHist,     \* bitset: the bits appended to src and to cln, in order
    bsShared,   \* bitset: whether the slices of src and cln are of one array
    bsOut,      \* bitset: the last read and what it returned
    bsAppends   \* bitset: the number of appends so far

newVars == <<content, level, newResult>>

encVars == <<encType, encData, encOut>>

rsVars == <<rsBytes, rsData, rsNumEC, rsResult>>

symVars == <<sym, symWritten, symInRange, symWrites>>

qrVars ==
    <<qrInput, qrNewErr, qrc, qrTwin, qrTwinOut, qrRenders, qrFirst, qrLast>>

dataVars == <<dtQ, dtOrig, dtPadErr, dtOut>>

bitsVars == <<bsBufs, bsHist, bsShared, bsOut, bsAppends>>

vars == <<newVars, encVars, rsVars, symVars, qrVars, dataVars, bitsVars>>

(***************************************************************************)
(* Helpers.                                                                *)
(***************************************************************************)
Min(a, b) == IF a < b THEN a ELSE b

\* A function on 1..n as the sequence of its values.
AsSeq(f) == f \o <<>>

\* 2^n for n in 0..30
Pow2(n) ==
    <<1, 2, 4, 8, 16, 32, 64, 128, 256, 512, 1024, 2048, 4096, 8192, 16384,
      32768, 65536, 131072, 262144, 524288, 1048576, 2097152, 4194304,
      8388608, 16777216, 33554432, 67108864, 134217728, 268435456,
      536870912, 1073741824>>[n + 1]

\* The sum of a sequence of numbers: that of its halves.
RECURSIVE SumSeq(_)
SumSeq(s) ==
    IF Len(s) = 0 THEN 0
    ELSE IF Len(s) = 1 THEN s[1]
    ELSE SumSeq(SubSeq(s, 1, Len(s) \div 2))
         + SumSeq(SubSeq(s, Len(s) \div 2 + 1, Len(s)))

\* A pointer is the sequence of the one object it points to; Nil, the empty
\* sequence, is Go's nil pointer.
Nil == <<>>

Ref(x) == <<x>>

Deref(p) == p[1]

\* Go's nil error.
NoError == "nil"

\* A function's pair of a value and an error.
Ok(v) == [err |-> NoError, val |-> v]

Fail(e, v) == [err |-> e, val |-> v]

\* An error is the string of its errors.New or fmt.Errorf in the source.

(***************************************************************************)
(* encoder.go: data modes and encoder types.                               *)
(***************************************************************************)
dataModeNone == 1
dataModeNumeric == 2
dataModeAlphanumeric == 4
dataModeByte == 8

dataEncoderType1To9 == 0
dataEncoderType10To26 == 1
dataEncoderType27To40 == 2

\* newDataEncoder: the encoder of a version group.
newDataEncoder(t) ==
    CASE t = dataEncoderType1To9 ->
           [type |-> t, minVersion |-> 1, maxVersion |-> 9,
            numNumericCharCountBits |-> 10,
            numAlphanumericCharCountBits |-> 9,
            numByteCharCountBits |-> 8]
      [] t = dataEncoderType10To26 ->
           [type |-> t, minVersion |-> 10, maxVersion |-> 26,
            numNumericCharCountBits |-> 12,
            numAlphanumericCharCountBits |-> 11,
            numByteCharCountBits |-> 16]
      [] t = dataEncoderType27To40 ->
           [type |-> t, minVersion |-> 27, maxVersion |-> 40,
            numNumericCharCountBits |-> 14,
            numAlphanumericCharCountBits |-> 13,
            numByteCharCountBits |-> 16]

\* The mode indicators are bitset.New(b0, b0, b0, b1) and so on: four bits.
modeIndicator(d, dataMode) ==
    CASE dataMode = dataModeNumeric -> Ok(<<FALSE, FALSE, FALSE, TRUE>>)
      [] dataMode = dataModeAlphanumeric -> Ok(<<FALSE, FALSE, TRUE, FALSE>>)
      [] dataMode = dataModeByte -> Ok(<<FALSE, TRUE, FALSE, FALSE>>)
      [] OTHER -> Fail("unknown data mode", <<>>)

charCountBits(d, dataMode) ==
    CASE dataMode = dataModeNumeric -> Ok(d.numNumericCharCountBits)
      [] dataMode = dataModeAlphanumeric -> Ok(d.numAlphanumericCharCountBits)
      [] dataMode = dataModeByte -> Ok(d.numByteCharCountBits)
      [] OTHER -> Fail("unknown data mode", 0)

\* encodedLength: the number of bits n characters take in a mode, or an error.
encodedLength(d, dataMode, n) ==
    LET modeIndicator_ == modeIndicator(d, dataMode)
        charCountBits_ == charCountBits(d, dataMode)
    IN  IF modeIndicator_.err # NoError THEN Fail(modeIndicator_.err, 0)
        ELSE IF charCountBits_.err # NoError THEN Fail(charCountBits_.err, 0)
        ELSE IF n > Pow2(charCountBits_.val) - 1
        THEN Fail("length too long to be represented", 0)
        ELSE Ok(Len(modeIndicator_.val) + charCountBits_.val +
                CASE dataMode = dataModeNumeric ->
                       10 * (n \div 3)
                       + (IF n % 3 # 0 THEN 1 + 3 * (n % 3) ELSE 0)
                  [] dataMode = dataModeAlphanumeric ->
                       11 * (n \div 2) + 6 * (n % 2)
                  [] dataMode = dataModeByte -> 8 * n)

(***************************************************************************)
(* The content is kept as runs <<byte, count>>, count >= 1: count copies   *)
(* of byte.  A slice of the content that starts and ends between two runs  *)
(* is a subsequence of the runs.                                           *)
(***************************************************************************)
RECURSIVE RunsLen(_)
RunsLen(runs) ==
    IF runs = <<>> THEN 0 ELSE Head(runs)[2] + RunsLen(Tail(runs))

\* The mode the switch of classifyDataModes gives a byte.
byteMode(v) ==
    IF v >= 48 /\ v <= 57 THEN dataModeNumeric
    ELSE IF v \in {32, 36, 37, 42, 43, 45, 46, 47, 58} \/ (v >= 65 /\ v <= 90)
         THEN dataModeAlphanumeric
    ELSE dataModeByte

\* classifyDataModes: the loop over d.data.  Within a run every byte has the
\* mode of the first, so only the first byte of a run can start a segment;
\* k is the run the loop is at, st its variables, newMode the mode of the
\* first byte of run k.
RECURSIVE classifyLoop(_, _, _)
classifyLoop(data, k, st) ==
    IF k > Len(data)
    THEN [actual |-> Append(st.actual,
                            [dataMode |-> st.mode,
                             data |-> SubSeq(data, st.start, Len(data))]),
          highestRequiredMode |-> st.highestRequiredMode]
    ELSE LET newMode == byteMode(data[k][1])
         IN  classifyLoop(data, k + 1,
                 [start |-> IF newMode # st.mode /\ k > 1 THEN k ELSE st.start,
                  mode |-> newMode,
                  actual |-> IF newMode # st.mode /\ k > 1
                             THEN Append(st.actual,
                                      [dataMode |-> st.mode,
                                       data |-> SubSeq(data, st.start, k - 1)])
                             ELSE st.actual,
                  highestRequiredMode |->
                      IF newMode > st.highestRequiredMode
                      THEN newMode ELSE st.highestRequiredMode])

classifyDataModes(data) ==
    classifyLoop(data, 1, [start |-> 1, mode |-> dataModeNone, actual |-> <<>>,
                           highestRequiredMode |-> dataModeNone])

\* The first error of three lengths, or NoError.
firstError(a, b, c) ==
    IF a.err # NoError THEN a.err
    ELSE IF b.err # NoError THEN b.err
    ELSE c.err

\* optimiseDataModes, inner loop: from segment j on, the segments coalesced
\* into the one of mode `mode` that holds numChars characters so far; the
\* index of the first segment left out, or the error of encodedLength.
RECURSIVE coalesceLoop(_, _, _, _, _)

\* The inner loop at segment j, of nextNumChars characters, once the three
\* lengths are known.
coalesceDecide(d, actual, mode, numChars, j, nextNumChars, coalescedLength, seperateLength1, seperateLength2) ==
    IF firstError(coalescedLength, seperateLength1, seperateLength2) # NoError
    THEN [err |-> firstError(coalescedLength, seperateLength1, seperateLength2),
          j |-> j]
    ELSE IF coalescedLength.val < seperateLength1.val + seperateLength2.val
    THEN coalesceLoop(d, actual, mode, numChars + nextNumChars, j + 1)
    ELSE [err |-> NoError, j |-> j]

\* An inner loop that coalesces a segment of any mode, a wider one too.
coalesceLoop_anyMode(d, actual, mode, numChars, j) ==
    IF j > Len(actual) THEN [err |-> NoError, j |-> j]
    ELSE coalesceDecide(d, actual, mode, numChars, j, RunsLen(actual[j].data),
             encodedLength(d, mode, numChars + RunsLen(actual[j].data)),
             encodedLength(d, mode, numChars),
             encodedLength(d, actual[j].dataMode, RunsLen(actual[j].data)))

coalesceLoop(d, actual, mode, numChars, j) ==
    IF j > Len(actual) THEN [err |-> NoError, j |-> j]
    ELSE IF actual[j].dataMode > mode THEN [err |-> NoError, j |-> j]
    ELSE coalesceDecide(d, actual, mode, numChars, j, RunsLen(actual[j].data),
             encodedLength(d, mode, numChars + RunsLen(actual[j].data)),
             encodedLength(d, mode, numChars),
             encodedLength(d, actual[j].dataMode, RunsLen(actual[j].data)))

RECURSIVE concatData(_, _, _)
concatData(actual, i, j) ==
    IF i >= j THEN <<>> ELSE actual[i].data \o concatData(actual, i + 1, j)

\* optimiseDataModes, outer loop: i is the first segment not yet placed, c
\* what the inner loop returns.
RECURSIVE optimiseLoop(_, _, _, _)
optimiseLoop(d, actual, i, optimised) ==
    IF i > Len(actual) THEN [err |-> NoError, optimised |-> optimised]
    ELSE LET c == coalesceLoop(d, actual, actual[i].dataMode,
                               RunsLen(actual[i].data), i + 1)
         IN  IF c.err # NoError THEN [err |-> c.err, optimised |-> <<>>]
             ELSE optimiseLoop(d, actual, c.j,
                      Append(optimised,
                             [dataMode |-> actual[i].dataMode,
                              data |-> concatData(actual, i, c.j)]))

optimiseDataModes(d, actual) == optimiseLoop(d, actual, 1, <<>>)

\* The sum of encodedLength over the optimised segments, or the first error.
RECURSIVE optimizedLength(_, _, _)
optimizedLength(d, optimised, k) ==
    IF k > Len(optimised) THEN Ok(0)
    ELSE LET length == encodedLength(d, optimised[k].dataMode,
                                     RunsLen(optimised[k].data))
             rest == optimizedLength(d, optimised, k + 1)
         IN  IF length.err # NoError THEN length
             ELSE IF rest.err # NoError THEN rest
             ELSE Ok(length.val + rest.val)

\* encode, up to the segments it goes on to emit: classification (c), the
\* optimisation (o) and the comparison of the optimised segments' length
\* with that of a single segment of the highest mode.
encodePlan(d, data) ==
    IF RunsLen(data) = 0
    THEN [err |-> "no data to encode", optimised |-> <<>>]
    ELSE LET c == classifyDataModes(data)
             o == optimiseDataModes(d, c.actual)
             optimizedLength_ == optimizedLength(d, o.optimised, 1)
             singleByteSegmentLength ==
                 encodedLength(d, c.highestRequiredMode, RunsLen(data))
         IN  IF o.err # NoError THEN [err |-> o.err, optimised |-> <<>>]
             ELSE IF optimizedLength_.err # NoError
             THEN [err |-> optimizedLength_.err, optimised |-> <<>>]
             ELSE IF singleByteSegmentLength.err # NoError
             THEN [err |-> singleByteSegmentLength.err, optimised |-> <<>>]
             ELSE IF singleByteSegmentLength.val <= optimizedLength_.val
             THEN [err |-> NoError,
                   optimised |-> <<[dataMode |-> c.highestRequiredMode,
                                    data |-> data]>>]
             ELSE [err |-> NoError, optimised |-> o.optimised]

(***************************************************************************)
(* bitset.go: a Bitset is numBits and its storage, bits, a sequence of     *)
(* bytes; bit i is bit 7 - i % 8 of byte i / 8 (bytes are numbered from 0  *)
(* in the source and from 1 here).                                         *)
(***************************************************************************)
\* make([]byte, n)
Zeros(n) == [i \in 1..n |-> 0]

\* Whether byte `by` has the bit of mask 0x80 >> k.
bitOf(by, k) == (by \div Pow2(7 - k)) % 2 = 1

\* bits after bits[at-1] |= 0x80 >> k (at counts from 1)
orMask(bits, at, k) ==
    IF bitOf(bits[at], k) THEN bits
    ELSE [bits EXCEPT ![at] = bits[at] + Pow2(7 - k)]

\* the number of bytes that hold numBits bits
numBytesFor(numBits) == numBits \div 8 + (IF numBits % 8 # 0 THEN 1 ELSE 0)

ensureCapacity(b, numBits) ==
    IF Len(b.bits) >= numBytesFor(numBits + b.numBits) THEN b
    ELSE [b EXCEPT !.bits = b.bits \o Zeros(numBytesFor(numBits + b.numBits)
                                             + 2 * Len(b.bits))]

\* 1 for true, 0 for false
bit(v) == IF v THEN 1 ELSE 0

\* Whether the loop of an append that takes the bits bools, in order, from
\* bit b.numBits on, sets the bit at pos.
setsBit(b, bools, pos) ==
    /\ pos >= b.numBits
    /\ pos < b.numBits + Len(bools)
    /\ bools[pos - b.numBits + 1]

\* Bit k of byte p after that loop, in its place: bits[..] |= 0x80 >> k.
bitAfter(b, bools, p, k) ==
    Pow2(7 - k) * bit(bitOf(b.bits[p], k) \/ setsBit(b, bools, 8 * (p - 1) + k))

byteAfter(b, bools, p) ==
    ((bitAfter(b, bools, p, 0) + bitAfter(b, bools, p, 1))
     + (bitAfter(b, bools, p, 2) + bitAfter(b, bools, p, 3)))
    + ((bitAfter(b, bools, p, 4) + bitAfter(b, bools, p, 5))
       + (bitAfter(b, bools, p, 6) + bitAfter(b, bools, p, 7)))

\* The loop of the appends, for the bits bools: each bit that is set is
\* or-ed into its byte, and numBits++ for every bit.
pushBytes(b, bools, first, last) ==
    [numBits |-> b.numBits + Len(bools),
     bits |-> SubSeq(b.bits, 1, first - 1)
              \o [p \in 1..(last - first + 1) |-> byteAfter(b, bools, first + p - 1)]
              \o SubSeq(b.bits, last + 1, Len(b.bits))]

\* The loop writes to the bytes from that of bit numBits to that of the
\* last bit appended.
pushBools(b, bools) ==
    pushBytes(b, bools, b.numBits \div 8 + 1,
              Min(Len(b.bits), numBytesFor(b.numBits + Len(bools))))

AppendBools(b, bools) == pushBools(ensureCapacity(b, Len(bools)), bools)

BitsetNew(bools) == AppendBools([numBits |-> 0, bits |-> <<>>], bools)

\* AppendNumBools: num calls of AppendBools(value), a call growing the
\* storage when the bit has no room; the calls that find room in the storage,
\* none of which grows it, are taken together.
RECURSIVE AppendNumBools(_, _, _)
AppendNumBools(b, num, value) ==
    LET inRoom(room) ==
            AppendNumBools(pushBools(b, [i \in 1..room |-> value]),
                           num - room, value)
    IN  IF num <= 0 THEN b
        ELSE IF 8 * Len(b.bits) > b.numBits
             THEN inRoom(Min(num, 8 * Len(b.bits) - b.numBits))
             ELSE AppendNumBools(ensureCapacity(b, 1), num, value)

BitsetLen(b) == b.numBits

\* A call that does not return: the runtime panics at an index expression.
Panic(e) == [err |-> e, val |-> Nil, panic |-> TRUE]

Panics(r) == "panic" \in DOMAIN r

\* index / 8 of Go, which truncates towards zero.
goQuo8(index) == IF index >= 0 THEN index \div 8 ELSE 0 - ((0 - index) \div 8)

\* At has no test for an index below 0.  There index / 8 is 0 for -7 .. -1
\* and negative below, index % 8 is negative and byte(index % 8) is 249 or
\* more, so the mask 0x80 >> byte(index % 8) is 0: the bit read is false
\* when b.bits[index / 8] is an element of the storage, and the index
\* expression panics when it is not.
At(b, index) ==
    IF index >= b.numBits THEN Fail("index out of range", FALSE)
    ELSE IF index >= 0 THEN Ok(bitOf(b.bits[index \div 8 + 1], index % 8))
    ELSE IF goQuo8(index) < 0 \/ goQuo8(index) >= Len(b.bits)
         THEN Panic("runtime error: index out of range")
    ELSE Ok(FALSE)

\* The bits the loop of AppendByte and of AppendUint32 takes: bits
\* numBits-1, .. 0 of value.
valueBools(value, numBits) ==
    [i \in 1..numBits |-> (value \div Pow2(numBits - i)) % 2 = 1]

pushValue(b, value, numBits) == pushBools(b, valueBools(value, numBits))

AppendByte(b, value, numBits) ==
    IF numBits > 8 THEN Fail("numBits out of range 0-8", ensureCapacity(b, numBits))
    ELSE Ok(pushValue(ensureCapacity(b, numBits), value, numBits))

AppendUint32(b, value, numBits) ==
    IF numBits > 32 THEN Fail("numBits out of range 0-32", ensureCapacity(b, numBits))
    ELSE Ok(pushValue(ensureCapacity(b, numBits), value, numBits))

RECURSIVE AppendBytes(_, _)
AppendBytes(b, data) ==
    LET next(r) == IF r.err # NoError THEN r ELSE AppendBytes(r.val, Tail(data))
    IN  IF data = <<>> THEN Ok(b)
        ELSE next(AppendByte(b, Head(data), 8))

\* The bits of a Bitset from bit start up to bit end - 1, as At gives them
\* (At has no error for an index below numBits).
atBools(other, start, end) ==
    [i \in 1..(end - start) |-> At(other, start + i - 1).val]

\* Append: every bit of other, in order.
BitsetAppend(b, other) ==
    Ok(pushBools(ensureCapacity(b, other.numBits), atBools(other, 0, other.numBits)))

\* Substr: a new Bitset of the bits At gives for start .. end - 1.  start
\* is compared with end only; of the indices the loop passes to At, start
\* is the first, and the one At panics at when it panics at any.
Substr(b, start, end) ==
    IF start > end \/ end > b.numBits THEN Fail("out of range", Nil)
    ELSE IF start < end /\ Panics(At(b, start)) THEN At(b, start)
    ELSE Ok(pushBools(ensureCapacity(BitsetNew(<<>>), end - start),
                      atBools(b, start, end)))

\* The loop of ByteAt over the n bits from index on: result <<= 1 then
\* result |= 1 for a bit that is set, so the first bit is the highest.  At
\* has no error for these bits.
byteAtLoop(b, index, n) ==
    SumSeq([i \in 1..n |-> bit(At(b, index + i - 1).val) * Pow2(n - i)])

\* ByteAt: the up to eight bits from index on, as a byte.
ByteAt(b, index) ==
    IF index < 0 \/ index >= b.numBits THEN Fail("index out of range", 0)
    ELSE Ok(byteAtLoop(b, index, Min(8, b.numBits - index)))

\* Clone: numBits and the bytes of from.bits[:].
Clone(from) == [numBits |-> from.numBits, bits |-> from.bits]

\* The bits a Bitset holds, first to last, as 0s and 1s.
BitsOf(b) ==
    [i \in 1..b.numBits |->
        IF bitOf(b.bits[(i - 1) \div 8 + 1], (i - 1) % 8) THEN 1 ELSE 0]

(***************************************************************************)
(* encoder.go: the bits of a segment.                                      *)
(***************************************************************************)
RECURSIVE Expand(_)
Expand(runs) ==
    IF runs = <<>> THEN <<>>
    ELSE [i \in 1..Head(runs)[2] |-> Head(runs)[1]] \o Expand(Tail(runs))

encodeAlphanumericCharacter(v) ==
    CASE v >= 48 /\ v <= 57 -> Ok(v - 48)
      [] v >= 65 /\ v <= 90 -> Ok(v - 65 + 10)
      [] v = 32 -> Ok(36)
      [] v = 36 -> Ok(37)
      [] v = 37 -> Ok(38)
      [] v = 42 -> Ok(39)
      [] v = 43 -> Ok(40)
      [] v = 45 -> Ok(41)
      [] v = 46 -> Ok(42)
      [] v = 47 -> Ok(43)
      [] v = 58 -> Ok(44)
      [] OTHER -> Fail("encodeAlphanumericCharacter() with non alphanumeric char", 0)

\* uint32(data[i] - 0x30), i counting from 0: the byte subtraction wraps.
digitValue(data, i) == (data[i + 1] - 48) % 256

\* The inner loop of the numeric case: the value of n <= 3 characters from
\* data[i].
numericValue(data, i, n) ==
    CASE n = 1 -> digitValue(data, i)
      [] n = 2 -> digitValue(data, i) * 10 + digitValue(data, i + 1)
      [] n = 3 -> (digitValue(data, i) * 10 + digitValue(data, i + 1)) * 10
                    + digitValue(data, i + 2)

RECURSIVE numericLoop(_, _, _)

\* A numeric loop that gives every group, the last one too, ten bits.
numericLoop_tenBits(data, i, encoded) ==
    LET next(r) == IF r.err # NoError THEN r ELSE numericLoop(data, i + 3, r.val)
    IN  IF i >= Len(data) THEN Ok(encoded)
        ELSE next(AppendUint32(encoded,
                      numericValue(data, i, Min(Len(data) - i, 3)), 10))

\* case dataModeNumeric: groups of up to three characters from data[i]
\* (i counts from 0, as in the source); a group of j takes 1 + 3j bits.
numericLoop(data, i, encoded) ==
    LET next(r) == IF r.err # NoError THEN r ELSE numericLoop(data, i + 3, r.val)
    IN  IF i >= Len(data) THEN Ok(encoded)
        ELSE next(AppendUint32(encoded,
                      numericValue(data, i, Min(Len(data) - i, 3)),
                      1 + 3 * Min(Len(data) - i, 3)))

\* case dataModeAlphanumeric: pairs of characters from data[i]; v1 and v2
\* are the characters encoded (v2 only when two characters remain).
RECURSIVE alphanumericLoop(_, _, _)
alphanumericLoop(data, i, encoded) ==
    LET next(r) ==
            IF r.err # NoError THEN r ELSE alphanumericLoop(data, i + 2, r.val)
        append(charsRemaining, v1, v2) ==
            IF v1.err # NoError THEN Fail(v1.err, encoded)
            ELSE IF charsRemaining > 1 /\ v2.err # NoError THEN Fail(v2.err, encoded)
            ELSE next(AppendUint32(encoded,
                          IF charsRemaining > 1 THEN v1.val * 45 + v2.val
                          ELSE v1.val,
                          IF charsRemaining > 1 THEN 11 ELSE 6))
    IN  IF i >= Len(data) THEN Ok(encoded)
        ELSE append(Len(data) - i,
                 encodeAlphanumericCharacter(data[i + 1]),
                 IF Len(data) - i > 1 THEN encodeAlphanumericCharacter(data[i + 2])
                 ELSE Ok(0))

\* encodeDataRaw: the mode indicator (mi), the character count (of cc bits)
\* and the data of one segment appended to encoded.
encodeDataRaw(d, data, dataMode, encoded) ==
    LET segment(a2) ==
            IF a2.err # NoError THEN a2
            ELSE CASE dataMode = dataModeNumeric -> numericLoop(data, 0, a2.val)
                   [] dataMode = dataModeAlphanumeric ->
                        alphanumericLoop(data, 0, a2.val)
                   [] dataMode = dataModeByte -> AppendBytes(a2.val, data)
        count(cc, a1) ==
            IF a1.err # NoError THEN a1
            ELSE segment(AppendUint32(a1.val, Len(data), cc.val))
        indicator(mi, cc) ==
            IF mi.err # NoError THEN Fail(mi.err, encoded)
            ELSE IF cc.err # NoError THEN Fail(cc.err, encoded)
            ELSE count(cc, BitsetAppend(encoded, BitsetNew(mi.val)))
    IN  indicator(modeIndicator(d, dataMode), charCountBits(d, dataMode))

\* The last loop of encode: every segment of the plan, in order.
RECURSIVE encodeSegments(_, _, _, _)
encodeSegments(d, optimised, k, encoded) ==
    LET next(r) ==
            IF r.err # NoError THEN Fail(r.err, Nil)
            ELSE encodeSegments(d, optimised, k + 1, r.val)
    IN  IF k > Len(optimised) THEN Ok(encoded)
        ELSE next(encodeDataRaw(d, Expand(optimised[k].data),
                                optimised[k].dataMode, encoded))

\* encode, given what the plan of the segments is.
encodePlanned(d, plan) ==
    IF plan.err # NoError THEN Fail(plan.err, Nil)
    ELSE encodeSegments(d, plan.optimised, 1, BitsetNew(<<>>))

\* encode: the bit stream of the data, or an error and no bit stream.
encode(d, data) == encodePlanned(d, encodePlan(d, data))

\* The number of bits encodeDataRaw appends for n characters: the mode
\* indicator, the count, and per iteration of its loop 1 + 3j bits for a
\* group of j digits, 11 or 6 for a pair or a single character, 8 for a byte.
encodeDataRawLen(d, n, dataMode) ==
    4 + charCountBits(d, dataMode).val +
    CASE dataMode = dataModeNumeric ->
           10 * (n \div 3) + (IF n % 3 = 0 THEN 0 ELSE 1 + 3 * (n % 3))
      [] dataMode = dataModeAlphanumeric -> 11 * (n \div 2) + 6 * (n % 2)
      [] dataMode = dataModeByte -> 8 * n
      [] OTHER -> 0

\* encoded.Len() of what encode returns, or its error.
encodeLen(d, data) ==
    LET planned(plan) ==
            IF plan.err # NoError THEN Fail(plan.err, 0)
            ELSE Ok(SumSeq([k \in 1..Len(plan.optimised) |->
                        encodeDataRawLen(d, RunsLen(plan.optimised[k].data),
                                         plan.optimised[k].dataMode)]))
    IN  planned(encodePlan(d, data))

(***************************************************************************)
(* version.go: the capacity of the versions and the choice of a version.   *)
(***************************************************************************)
Levels == <<"Low", "Medium", "High", "Highest">>

levelIndex(l) == CHOOSE i \in 1..4 : Levels[i] = l

numDataCodewords ==
    << <<19, 16, 13, 9>>,          <<34, 28, 22, 16>>,
       <<55, 44, 34, 26>>,         <<80, 64, 48, 36>>,
       <<108, 86, 62, 46>>,        <<136, 108, 76, 60>>,
       <<156, 124, 88, 66>>,       <<194, 154, 110, 86>>,
       <<232, 182, 132, 100>>,     <<274, 216, 154, 122>>,
       <<324, 254, 180, 140>>,     <<370, 290, 206, 158>>,
       <<428, 334, 244, 180>>,     <<461, 365, 261, 197>>,
       <<523, 415, 295, 223>>,     <<589, 453, 325, 253>>,
       <<647, 507, 367, 283>>,     <<721, 563, 397, 313>>,
       <<795, 627, 445, 341>>,     <<861, 669, 485, 385>>,
       <<932, 714, 512, 406>>,     <<1006, 782, 568, 442>>,
       <<1094, 860, 614, 464>>,    <<1174, 914, 664, 514>>,
       <<1276, 1000, 718, 538>>,   <<1370, 1062, 754, 596>>,
       <<1468, 1128, 808, 628>>,   <<1531, 1193, 871, 661>>,
       <<1631, 1267, 911, 701>>,   <<1735, 1373, 985, 745>>,
       <<1843, 1455, 1033, 793>>,  <<1955, 1541, 1115, 845>>,
       <<2071, 1631, 1171, 901>>,  <<2191, 1725, 1231, 961>>,
       <<2306, 1812, 1286, 986>>,  <<2434, 1914, 1354, 1054>>,
       <<2566, 1992, 1426, 1096>>, <<2702, 2102, 1502, 1142>>,
       <<2812, 2216, 1582, 1222>>, <<2956, 2334, 1666, 1276>> >>

\* qrCodeVersion.numDataBits
numDataBits(version, l) == 8 * numDataCodewords[version][levelIndex(l)]

\* chooseQRCodeVersion: the first version of the encoder's group, in
\* ascending order, whose numDataBits is at least the encoded length; Nil
\* when the group has none.
RECURSIVE chooseLoop(_, _, _, _)
chooseLoop(l, d, n, v) ==
    IF v > d.maxVersion THEN Nil
    ELSE IF numDataBits(v, l) - n >= 0 THEN Ref(v)
    ELSE chooseLoop(l, d, n, v + 1)

chooseQRCodeVersion(l, d, n) == chooseLoop(l, d, n, d.minVersion)

(***************************************************************************)
(* qrcode.go: New.                                                         *)
(***************************************************************************)
encoders == <<dataEncoderType1To9, dataEncoderType10To26, dataEncoderType27To40>>

DefaultMargin == 4

\* The variables of New before its loop.
newLoopStart ==
    [encoder |-> Nil, encoded |-> Nil, chosenVersion |-> Nil, err |-> NoError]

\* The loop of New over the encoders, from encoders[k] on; st holds the
\* function's variables encoder, encoded (its length), chosenVersion, err.
\* An encode that fails goes on to the next encoder (continue); a version
\* found ends the loop (break).
RECURSIVE newLoopFrom(_, _, _, _)

\* The loop with the first failing encode ending it.
newLoopFrom_return(c, l, k, st) ==
    LET chosen(st2) ==
            IF st2.chosenVersion # Nil THEN st2 ELSE newLoopFrom(c, l, k + 1, st2)
        encoded(d, e) ==
            IF e.err # NoError
            THEN [st EXCEPT !.encoder = Ref(encoders[k]), !.encoded = Nil,
                            !.err = e.err]
            ELSE chosen([encoder |-> Ref(encoders[k]), encoded |-> Ref(e.val),
                         chosenVersion |-> chooseQRCodeVersion(l, d, e.val),
                         err |-> NoError])
        with(d) == encoded(d, encodeLen(d, c))
    IN  IF k > Len(encoders) THEN st
        ELSE with(newDataEncoder(encoders[k]))

newLoopFrom(c, l, k, st) ==
    LET chosen(st2) ==
            IF st2.chosenVersion # Nil THEN st2 ELSE newLoopFrom(c, l, k + 1, st2)
        encoded(d, e) ==
            IF e.err # NoError
            THEN newLoopFrom(c, l, k + 1,
                     [st EXCEPT !.encoder = Ref(encoders[k]), !.encoded = Nil,
                                !.err = e.err])
            ELSE chosen([encoder |-> Ref(encoders[k]), encoded |-> Ref(e.val),
                         chosenVersion |-> chooseQRCodeVersion(l, d, e.val),
                         err |-> NoError])
        with(d) == encoded(d, encodeLen(d, c))
    IN  IF k > Len(encoders) THEN st
        ELSE with(newDataEncoder(encoders[k]))

\* New, after its loop: the QRCode it builds.
newQRCode(c, l, st) ==
    [content |-> c, level |-> l,
     versionNumber |-> Deref(st.chosenVersion),
     Margin |-> DefaultMargin,
     encoder |-> Deref(st.encoder),
     dataLen |-> Deref(st.encoded)]

\* A New that does not look at the error the loop left.
New_noErrCheck(c, l) ==
    LET after(st) ==
            IF st.chosenVersion = Nil
            THEN [err |-> "content too long to encode", q |-> Nil]
            ELSE [err |-> NoError, q |-> Ref(newQRCode(c, l, st))]
    IN  after(newLoopFrom(c, l, 1, newLoopStart))

\* New: an error and no QRCode, or a QRCode and no error.  The QRCode's data
\* is the bit stream of the last encode; dataLen is its length.
New(c, l) ==
    LET after(st) ==
            IF st.err # NoError THEN [err |-> st.err, q |-> Nil]
            ELSE IF st.chosenVersion = Nil
            THEN [err |-> "content too long to encode", q |-> Nil]
            ELSE [err |-> NoError, q |-> Ref(newQRCode(c, l, st))]
    IN  after(newLoopFrom(c, l, 1, newLoopStart))

(***************************************************************************)
(* The specification of New: a content and a level, then the call.         *)
(* newResult is Nil until New has been called, then what it returned.      *)
(***************************************************************************)
\* The bytes the contents are made of: a digit, an alphanumeric character
\* and a byte that is neither.
ContentBytes == {49, 65, 97}

\* The lengths of the runs: around the limits of the character counts (255,
\* 511, 1023, 2047, 4095, 8191, 16383, 65535) and of the capacity of version
\* 40 (2,953 bytes, 4,296 characters, 7,089 digits).
RunLengths ==
    {1, 255, 256, 520, 2953, 2954, 4296, 7089, 7090, 8192, 16384, 65536}

MaxRuns == 2

RunSeqs(n) == UNION {[1..k -> ContentBytes \X RunLengths] : k \in 0..n}

NewInit ==
    /\ content \in RunSeqs(MaxRuns)
    /\ level \in {Levels[i] : i \in 1..4}
    /\ newResult = Nil

\* The variables of New when another part of the program is looked at.
NewIdle == content = <<>> /\ level = "Low" /\ newResult = Nil

NewCall ==
    /\ newResult = Nil
    /\ newResult' = Ref(New(content, level))
    /\ UNCHANGED <<content, level>>
    /\ UNCHANGED <<encVars, rsVars, symVars, qrVars, dataVars, bitsVars>>

(***************************************************************************)
(* Claims about New.                                                       *)
(***************************************************************************)
NewReturned == newResult # Nil

groupFitsLen(l, d, e) ==
    /\ e.err = NoError
    /\ \E v \in d.minVersion..d.maxVersion : numDataBits(v, l) >= e.val

groupFitsWith(c, l, d) == groupFitsLen(l, d, encodeLen(d, c))

\* Whether the content, encoded with the character counts of group t, is
\* encodable and some version of that group holds it at the level.
groupFits(c, l, t) == groupFitsWith(c, l, newDataEncoder(t))

\* C1: New called with empty content returns an error and no QRCode, at every
\* level: the "no data to encode" of encode, which the loop over the version
\* groups does not swallow.
C1_EmptyContentFails ==
    (NewReturned /\ RunsLen(content) = 0) =>
        /\ Deref(newResult).err = "no data to encode"
        /\ Deref(newResult).q = Nil

C1_Witness ==
    /\ NewReturned
    /\ content = <<>>
    /\ level = "Highest"
    /\ Deref(newResult).err # NoError

\* C2: for every non-empty content that fits no version 1..40 at the level,
\* however long it is, New returns "content too long to encode" and no QRCode,
\* and no other error.
C2_OverCapacityIsContentTooLong ==
    (/\ NewReturned
     /\ RunsLen(content) > 0
     /\ \A k \in 1..Len(encoders) : ~groupFits(content, level, encoders[k])) =>
        /\ Deref(newResult).err = "content too long to encode"
        /\ Deref(newResult).q = Nil

\* What C3 says of the QRCode q when the first group that fits is d and the
\* content takes e bits in it.
firstFitHolds(l, r, q, k, d, e) ==
    /\ r.err = NoError
    /\ q.encoder = encoders[k]
    /\ q.dataLen = e.val
    /\ q.versionNumber \in d.minVersion..d.maxVersion
    /\ numDataBits(q.versionNumber, l) >= e.val
    /\ \A v \in d.minVersion..(q.versionNumber - 1) : numDataBits(v, l) < e.val

firstFitOf(c, l, r, k, d) ==
    /\ r.q # Nil
    /\ firstFitHolds(l, r, Deref(r.q), k, d, encodeLen(d, c))

\* C3: New takes the version groups in the order 1-9, 10-26, 27-40 and stops
\* at the first in which the content, encoded with that group's character
\* counts, fits some version; it records the smallest such version of that
\* group and the bit stream of that group; a group in which encode fails
\* does not keep a later group from succeeding.
C3_FirstFittingGroupSmallestVersion ==
    (NewReturned /\ RunsLen(content) > 0) =>
        /\ (\A k \in 1..Len(encoders) : ~groupFits(content, level, encoders[k]))
             => (Deref(newResult).q = Nil /\ Deref(newResult).err # NoError)
        /\ \A k \in 1..Len(encoders) :
              (/\ groupFits(content, level, encoders[k])
               /\ \A j \in 1..(k - 1) : ~groupFits(content, level, encoders[j]))
              => firstFitOf(content, level, Deref(newResult), k,
                            newDataEncoder(encoders[k]))

\* A content that group 1-9 cannot encode and a version of a later group holds.
C3_Witness ==
    /\ NewReturned
    /\ encodeLen(newDataEncoder(dataEncoderType1To9), content).err = "length too long to be represented"
    /\ Deref(newResult).err = NoError
    /\ Deref(Deref(newResult).q).versionNumber >= 10

(***************************************************************************)
(* The specification of dataEncoder.encode: an encoder of one of the three *)
(* types, a data, then the call.  encOut holds the error, the bit stream   *)
(* and d.optimised as encode left it.                                      *)
(***************************************************************************)
\* '1', '9', 'A', 'a'
EncBytes == {49, 57, 65, 97}

EncRunLengths == {1, 2, 4, 5, 9}

MaxEncRuns == 2

EncInit ==
    /\ encType \in {encoders[k] : k \in 1..Len(encoders)}
    /\ encData \in UNION {[1..k -> EncBytes \X EncRunLengths] : k \in 0..MaxEncRuns}
    /\ encOut = Nil

EncIdle == encType = dataEncoderType1To9 /\ encData = <<>> /\ encOut = Nil

\* encOut is what encode leaves: its error, its bit stream and d.optimised.
EncodeCall ==
    LET outcome(plan, r) ==
            [err |-> r.err, encoded |-> r.val, optimised |-> plan.optimised]
        run(d, plan) == outcome(plan, encodePlanned(d, plan))
        call(d) == run(d, encodePlan(d, encData))
    IN
    /\ encOut = Nil
    /\ encOut' = Ref(call(newDataEncoder(encType)))
    /\ UNCHANGED <<encType, encData>>
    /\ UNCHANGED <<newVars, rsVars, symVars, qrVars, dataVars, bitsVars>>

(***************************************************************************)
(* Claims about dataEncoder.encode.                                        *)
(***************************************************************************)
EncodeReturned == encOut # Nil

NumericChars == 48..57

AlphanumericChars == NumericChars \cup (65..90) \cup {32, 36, 37, 42, 43, 45, 46, 47, 58}

\* The characters a segment of a mode may hold.
ModeChars(dataMode) ==
    CASE dataMode = dataModeNumeric -> NumericChars
      [] dataMode = dataModeAlphanumeric -> AlphanumericChars
      [] dataMode = dataModeByte -> 0..255
      [] OTHER -> {}

RunBytes(runs) == {runs[i][1] : i \in 1..Len(runs)}

RECURSIVE PlanData(_)
PlanData(segments) ==
    IF segments = <<>> THEN <<>>
    ELSE Expand(Head(segments).data) \o PlanData(Tail(segments))

oneNumericSegment(r, cc, n) ==
    /\ r.err = NoError
    /\ Len(r.optimised) = 1
    /\ r.optimised[1].dataMode = dataModeNumeric
    /\ BitsetLen(r.encoded) =
           4 + cc + 10 * (n \div 3) + (IF n % 3 = 0 THEN 0 ELSE 1 + 3 * (n % 3))

digitsOneSegment(cc, n) ==
    (/\ EncodeReturned
     /\ n > 0
     /\ RunBytes(encData) \subseteq NumericChars
     /\ n <= Pow2(cc) - 1) => oneNumericSegment(Deref(encOut), cc, n)

\* C7: for a non-empty input of digits only, in every version group that can
\* represent its length, encode emits one segment, of mode Numeric, and
\* 4 + charCountBits + 10 * (n / 3) + (n % 3 = 0 ? 0 : 1 + 3 * (n % 3)) bits.
C7_DigitsOneNumericSegment ==
    digitsOneSegment(newDataEncoder(encType).numNumericCharCountBits,
                     RunsLen(encData))

\* Five digits in group 1-9: 31 bits.
C7_Witness ==
    /\ EncodeReturned
    /\ encType = dataEncoderType1To9
    /\ encData = << <<49, 1>>, <<57, 4>> >>
    /\ BitsetLen(Deref(encOut).encoded) = 31

planPartitions(r) ==
    /\ r.err \in {NoError, "length too long to be represented"}
    /\ r.err = NoError =>
         /\ PlanData(r.optimised) = Expand(encData)
         /\ \A k \in 1..Len(r.optimised) :
                /\ RunsLen(r.optimised[k].data) > 0
                /\ RunBytes(r.optimised[k].data)
                       \subseteq ModeChars(r.optimised[k].dataMode)

\* C8: for a non-empty input the segments encode emits are a partition of the
\* input, in order, and every byte of a segment is a character of the
\* segment's mode; so encodeDataRaw does not fail on a character.
C8_PlanPartitionsInput ==
    (EncodeReturned /\ RunsLen(encData) > 0) => planPartitions(Deref(encOut))

\* A plan of two segments, the second one narrower than the first.
C8_Witness ==
    /\ EncodeReturned
    /\ Deref(encOut).err = NoError
    /\ Len(Deref(encOut).optimised) = 2
    /\ Deref(encOut).optimised[1].dataMode = dataModeByte
    /\ Deref(encOut).optimised[2].dataMode = dataModeNumeric

(***************************************************************************)
(* gf2_8.go: GF(2^8) with the polynomial x^8 + x^4 + x^3 + x^2 + 1.        *)
(***************************************************************************)
gfZero == 0

gfOne == 1

\* a ^ b for a and b in 0..511: bit i of it is set when one of a and b has
\* it.
xor(a, b) ==
    LET xorBit(i) == Pow2(i) * (((a \div Pow2(i)) + (b \div Pow2(i))) % 2)
    IN  ((xorBit(0) + xorBit(1)) + (xorBit(2) + xorBit(3)))
        + ((xorBit(4) + xorBit(5)) + (xorBit(6) + (xorBit(7) + xorBit(8))))

\* x times alpha, reduced by the polynomial of the field, 0x11d.
gfTimesAlpha(x) == IF 2 * x >= 256 THEN xor(2 * x, 285) ELSE 2 * x

\* gfExpTable[i] of the source is gfExpTable[i + 1] here: alpha^i for i in
\* 0..255, each entry the one before times alpha (alpha^255 = alpha^0).
gfExpTable ==
    <<
      1, 2, 4, 8, 16, 32, 64, 128, 29, 58, 116, 232,
      205, 135, 19, 38, 76, 152, 45, 90, 180, 117, 234, 201,
      143, 3, 6, 12, 24, 48, 96, 192, 157, 39, 78, 156,
      37, 74, 148, 53, 106, 212, 181, 119, 238, 193, 159, 35,
      70, 140, 5, 10, 20, 40, 80, 160, 93, 186, 105, 210,
      185, 111, 222, 161, 95, 190, 97, 194, 153, 47, 94, 188,
      101, 202, 137, 15, 30, 60, 120, 240, 253, 231, 211, 187,
      107, 214, 177, 127, 254, 225, 223, 163, 91, 182, 113, 226,
      217, 175, 67, 134, 17, 34, 68, 136, 13, 26, 52, 104,
      208, 189, 103, 206, 129, 31, 62, 124, 248, 237, 199, 147,
      59, 118, 236, 197, 151, 51, 102, 204, 133, 23, 46, 92,
      184, 109, 218, 169, 79, 158, 33, 66, 132, 21, 42, 84,
      168, 77, 154, 41, 82, 164, 85, 170, 73, 146, 57, 114,
      228, 213, 183, 115, 230, 209, 191, 99, 198, 145, 63, 126,
      252, 229, 215, 179, 123, 246, 241, 255, 227, 219, 171, 75,
      150, 49, 98, 196, 149, 55, 110, 220, 165, 87, 174, 65,
      130, 25, 50, 100, 200, 141, 7, 14, 28, 56, 112, 224,
      221, 167, 83, 166, 81, 162, 89, 178, 121, 242, 249, 239,
      195, 155, 43, 86, 172, 69, 138, 9, 18, 36, 72, 144,
      61, 122, 244, 245, 247, 243, 251, 235, 203, 139, 11, 22,
      44, 88, 176, 125, 250, 233, 207, 131, 27, 54, 108, 216,
      173, 71, 142, 1
    >>

\* gfLogTable[v] of the source is gfLogTable[v + 1] here: the i in 0..254
\* with alpha^i = v; zero has no logarithm (-1).
gfLogTable ==
    <<
      -1, 0, 1, 25, 2, 50, 26, 198, 3, 223, 51, 238,
      27, 104, 199, 75, 4, 100, 224, 14, 52, 141, 239, 129,
      28, 193, 105, 248, 200, 8, 76, 113, 5, 138, 101, 47,
      225, 36, 15, 33, 53, 147, 142, 218, 240, 18, 130, 69,
      29, 181, 194, 125, 106, 39, 249, 185, 201, 154, 9, 120,
      77, 228, 114, 166, 6, 191, 139, 98, 102, 221, 48, 253,
      226, 152, 37, 179, 16, 145, 34, 136, 54, 208, 148, 206,
      143, 150, 219, 189, 241, 210, 19, 92, 131, 56, 70, 64,
      30, 66, 182, 163, 195, 72, 126, 110, 107, 58, 40, 84,
      250, 133, 186, 61, 202, 94, 155, 159, 10, 21, 121, 43,
      78, 212, 229, 172, 115, 243, 167, 87, 7, 112, 192, 247,
      140, 128, 99, 13, 103, 74, 222, 237, 49, 197, 254, 24,
      227, 165, 153, 119, 38, 184, 180, 124, 17, 68, 146, 217,
      35, 32, 137, 46, 55, 63, 209, 91, 149, 188, 207, 205,
      144, 135, 151, 178, 220, 252, 190, 97, 242, 86, 211, 171,
      20, 42, 93, 158, 132, 60, 57, 83, 71, 109, 65, 162,
      31, 45, 67, 216, 183, 123, 164, 118, 196, 23, 73, 236,
      127, 12, 111, 246, 108, 161, 59, 82, 41, 157, 85, 170,
      251, 96, 134, 177, 187, 204, 62, 90, 203, 89, 95, 176,
      156, 169, 160, 81, 11, 245, 22, 235, 122, 117, 44, 215,
      79, 174, 213, 233, 230, 231, 173, 232, 116, 214, 244, 234,
      168, 80, 88, 175
    >>

gfAdd(a, b) == xor(a, b)

gfMultiply(a, b) ==
    IF a = gfZero \/ b = gfZero THEN gfZero
    ELSE gfExpTable[((gfLogTable[a + 1] + gfLogTable[b + 1]) % 255) + 1]

gfDivide(a, b) ==
    IF a = gfZero THEN Ok(gfZero)
    ELSE IF b = gfZero THEN Fail("divide by zero", gfZero)
    ELSE Ok(gfExpTable[((gfLogTable[a + 1] + 255 - gfLogTable[b + 1]) % 255) + 1])

(***************************************************************************)
(* gf_poly.go: a gfPoly is the sequence of its terms; term[i] of the       *)
(* source, the coefficient of x^i, is the element i + 1 here.  gfPoly{} is *)
(* the empty sequence.                                                     *)
(***************************************************************************)
numTerms(e) == Len(e)

\* normalised: the terms up to the last one that is not zero, which the loop
\* finds from the highest term down; no term when every term is zero.
normalised(e) ==
    LET nonzero == {i \in 1..numTerms(e) : e[i] # 0}
    IN  IF nonzero = {} THEN <<>>
        ELSE SubSeq(e, 1, CHOOSE i \in nonzero : \A j \in nonzero : j <= i)

gfPolyAdd(a, b) ==
    normalised(AsSeq(
        [t \in 1..(IF numTerms(b) > numTerms(a) THEN numTerms(b)
                   ELSE numTerms(a)) |->
            IF numTerms(a) >= t /\ numTerms(b) >= t THEN gfAdd(a[t], b[t])
            ELSE IF numTerms(a) >= t THEN a[t]
            ELSE b[t]]))

newGFPolyMonomial(term, degree) ==
    IF term = gfZero THEN <<>>
    ELSE [t \in 1..(degree + 1) |-> IF t = degree + 1 THEN term ELSE 0]

\* The sum of field elements: gfAdd is the xor of the elements, so bit i of
\* the sum of the elements of s is set when an odd number of them have it.
gfSum(s) ==
    LET sumBit(i) ==
            Pow2(i) * (Cardinality({k \in 1..Len(s) :
                                       (s[k] \div Pow2(i)) % 2 = 1}) % 2)
    IN  ((sumBit(0) + sumBit(1)) + (sumBit(2) + sumBit(3)))
        + ((sumBit(4) + sumBit(5)) + (sumBit(6) + sumBit(7)))

\* gfPolyMultiply adds to a result of numATerms + numBTerms zero terms the
\* monomial a[i] b[j] x^(i+j) of every i and j: term t of the sum is the
\* sum of the a[i] b[t-i] (t, i from 0).
gfPolyMultiply(a, b) ==
    LET productTerm(t) ==
            gfSum(AsSeq([i \in 1..numTerms(a) |->
                            IF t - (i - 1) >= 0 /\ t - (i - 1) < numTerms(b)
                            THEN gfMultiply(a[i], b[t - (i - 1) + 1])
                            ELSE gfZero]))
    IN  normalised(AsSeq([t \in 1..(numTerms(a) + numTerms(b)) |->
                             productTerm(t - 1)]))

\* equals: the terms both have are equal and the others are zero.
equals(e, other) ==
    /\ \A t \in 1..Min(numTerms(e), numTerms(other)) : e[t] = other[t]
    /\ \A t \in (Min(numTerms(e), numTerms(other)) + 1)..numTerms(e) : e[t] = 0
    /\ \A t \in (Min(numTerms(e), numTerms(other)) + 1)..numTerms(other) :
           other[t] = 0

\* The loop of gfPolyRemainder: while the remainder has as many terms as the
\* denominator, the denominator times the monomial that cancels the highest
\* term of the remainder is added to it.
RECURSIVE gfPolyRemainderLoop(_, _)
gfPolyRemainderLoop(remainder, denominator) ==
    IF \/ numTerms(remainder) < numTerms(denominator)
       \/ gfDivide(remainder[numTerms(remainder)],
                   denominator[numTerms(denominator)]).err # NoError
    THEN IF numTerms(remainder) < numTerms(denominator)
         THEN Ok(normalised(remainder))
         ELSE Fail(gfDivide(remainder[numTerms(remainder)],
                            denominator[numTerms(denominator)]).err, <<>>)
    ELSE gfPolyRemainderLoop(
             gfPolyAdd(remainder,
                 gfPolyMultiply(denominator,
                     newGFPolyMonomial(
                         gfDivide(remainder[numTerms(remainder)],
                                  denominator[numTerms(denominator)]).val,
                         numTerms(remainder) - numTerms(denominator)))),
             denominator)

gfPolyRemainder(numerator, denominator) ==
    IF equals(denominator, <<>>) THEN Fail("remainder by zero", <<>>)
    ELSE gfPolyRemainderLoop(numerator, denominator)

\* gfPoly.data, for numTerms >= len(e.term): the terms, the highest first,
\* after numTerms - len(e.term) zero bytes.
gfPolyData(e, n) ==
    [p \in 1..n |-> IF p <= n - Len(e) THEN 0 ELSE e[n - p + 1]]

\* newGFPolyFromData: byteAt holds what ByteAt returns for the bytes of the
\* data, in order; the first byte is the term of the highest degree.
newGFPolyFromData(data) ==
    LET numTotalBytes == numBytesFor(BitsetLen(data))
        byteAt == AsSeq([k \in 1..numTotalBytes |-> ByteAt(data, 8 * (k - 1))])
    IN  IF \E k \in 1..numTotalBytes : byteAt[k].err # NoError
        THEN Fail(byteAt[CHOOSE k \in 1..numTotalBytes :
                            /\ byteAt[k].err # NoError
                            /\ \A j \in 1..(k - 1) : byteAt[j].err = NoError].err,
                  <<>>)
        ELSE Ok(AsSeq([t \in 1..numTotalBytes |->
                          byteAt[numTotalBytes - t + 1].val]))

(***************************************************************************)
(* reed_solomon.go                                                         *)
(***************************************************************************)
\* The loop of rsGeneratorPoly; st holds i and generator.
RECURSIVE rsGeneratorLoop(_, _)
rsGeneratorLoop(degree, st) ==
    IF st.i >= degree THEN st.generator
    ELSE rsGeneratorLoop(degree,
             [i |-> st.i + 1,
              generator |-> gfPolyMultiply(st.generator,
                                           <<gfExpTable[st.i + 1], 1>>)])

\* A generator whose roots are alpha^1 .. alpha^degree.
rsGeneratorPoly_fromAlpha1(degree) ==
    IF degree < 2 THEN Fail("degree < 2", <<>>)
    ELSE Ok(rsGeneratorLoop(degree + 1, [i |-> 1, generator |-> <<1>>]))

rsGeneratorPoly(degree) ==
    IF degree < 2 THEN Fail("degree < 2", <<>>)
    ELSE Ok(rsGeneratorLoop(degree, [i |-> 0, generator |-> <<1>>]))

\* reedsolomon.Encode: data followed by numECBytes error correction bytes,
\* the remainder of the data polynomial times x^numECBytes by the generator,
\* appended to a clone of data.
Encode(data, numECBytes) ==
    LET dataPoly == newGFPolyFromData(data)
        ecpoly == gfPolyMultiply(dataPoly.val,
                                 newGFPolyMonomial(gfOne, numECBytes))
        generator == rsGeneratorPoly(numECBytes)
        remainder == gfPolyRemainder(ecpoly, generator.val)
    IN  IF dataPoly.err # NoError THEN Fail(dataPoly.err, Nil)
        ELSE IF generator.err # NoError THEN Fail(generator.err, Nil)
        ELSE IF remainder.err # NoError THEN Fail(remainder.err, Nil)
        ELSE AppendBytes(Clone(data), gfPolyData(remainder.val, numECBytes))

\* Clone hands from.bits[:] to the clone: the bytes of `from` that the clone
\* has written to since, inside len(from.bits), are those of the clone.
sharedStorage(from, clone) ==
    [from EXCEPT !.bits = SubSeq(clone.bits, 1, Len(from.bits))]

(***************************************************************************)
(* The specification of reedsolomon.Encode: a buffer of whole bytes and a  *)
(* number of error correction bytes, then the call.  rsBytes keeps the     *)
(* bytes the buffer was made of.                                           *)
(***************************************************************************)
RsByteValues == {0, 1, 64, 255}

RsNumECBytes == {1, 2, 3, 7}

MaxRsBytes == 3

RsInit ==
    /\ rsBytes \in UNION {[1..n -> RsByteValues] : n \in 0..MaxRsBytes}
    /\ rsData = AppendBytes(BitsetNew(<<>>), rsBytes).val
    /\ rsNumEC \in RsNumECBytes
    /\ rsResult = Nil

RsIdle ==
    /\ rsBytes = <<>>
    /\ rsData = BitsetNew(<<>>)
    /\ rsNumEC = 2
    /\ rsResult = Nil

RsEncodeCall ==
    /\ rsResult = Nil
    /\ \E r \in {Encode(rsData, rsNumEC)} :
          /\ rsResult' = Ref(r)
          /\ rsData' = IF r.err = NoError THEN sharedStorage(rsData, r.val)
                       ELSE rsData
    /\ UNCHANGED <<rsBytes, rsNumEC>>
    /\ UNCHANGED <<newVars, encVars, symVars, qrVars, dataVars, bitsVars>>

(***************************************************************************)
(* Claims about reedsolomon.Encode.                                        *)
(***************************************************************************)
RsReturned == rsResult # Nil

\* a times alpha^i
RECURSIVE gfShift(_, _)
gfShift(a, i) == IF i = 0 THEN a ELSE gfTimesAlpha(gfShift(a, i - 1))

\* The product in the field, by shifts: the sum of a alpha^i over the bits
\* i of b that are set.
gfProduct(a, b) ==
    gfSum(AsSeq([i \in 1..8 |->
                    IF (b \div Pow2(i - 1)) % 2 = 1 THEN gfShift(a, i - 1)
                    ELSE 0]))

\* alpha^i
alphaPower(i) == gfShift(1, i)

\* The value at x of the polynomial whose coefficients, the highest degree
\* first, are the codewords: st holds the codeword it is at and the value of
\* the codewords before it.
RECURSIVE valueAt(_, _, _)
valueAt(codewords, x, st) ==
    IF st.k > Len(codewords) THEN st.acc
    ELSE valueAt(codewords, x,
             [k |-> st.k + 1,
              acc |-> gfAdd(gfProduct(st.acc, x), codewords[st.k])])

\* The whole bytes a Bitset holds.
Codewords(b) == SubSeq(b.bits, 1, b.numBits \div 8)

systematicCodeword(r, k) ==
    /\ r.err = NoError
    /\ BitsetLen(r.val) = 8 * Len(rsBytes) + 8 * k
    /\ SubSeq(BitsOf(r.val), 1, 8 * Len(rsBytes)) = BitsOf(rsData)
    /\ SubSeq(Codewords(r.val), 1, Len(rsBytes)) = rsBytes
    /\ \A i \in 0..(k - 1) :
           valueAt(Codewords(r.val), alphaPower(i), [k |-> 1, acc |-> 0]) = 0

\* C9: for a buffer b of whole bytes and k >= 2, Encode(b, k) returns a buffer
\* of len(b) + 8k bits that starts with the bits of b, leading zero bytes
\* included, and whose bytes, read as a polynomial, the highest degree first,
\* are divisible by G_k = (x + alpha^0) .. (x + alpha^(k-1)): its last k
\* bytes are the remainder of b(x) * x^k by G_k.
C9_EncodeIsSystematicAndDivisible ==
    (RsReturned /\ rsNumEC >= 2 /\ BitsetLen(rsData) % 8 = 0) =>
        systematicCodeword(Deref(rsResult), rsNumEC)

\* A buffer that starts with a zero byte, with seven error correction bytes
\* that are not all zero.
C9_Witness ==
    /\ RsReturned
    /\ rsBytes = <<0, 64>>
    /\ rsNumEC = 7
    /\ Deref(rsResult).err = NoError
    /\ \E p \in 3..9 : Codewords(Deref(rsResult).val)[p] # 0

(***************************************************************************)
(* symbol.go: a symbol is its grid module[y][x] and isUsed[y][x], with     *)
(* size, symbolSize and quietZoneSize.  Rows and columns are counted from  *)
(* 0 in the source and in the coordinates x, y here; the grid is a         *)
(* sequence of rows, each a sequence, so module[y][x] is module[y+1][x+1]. *)
(***************************************************************************)
newSymbol(size, quietZoneSize) ==
    [module |-> [i \in 1..(size + 2 * quietZoneSize) |->
                    [j \in 1..(size + 2 * quietZoneSize) |-> FALSE]],
     isUsed |-> [i \in 1..(size + 2 * quietZoneSize) |->
                    [j \in 1..(size + 2 * quietZoneSize) |-> FALSE]],
     size |-> size + 2 * quietZoneSize,
     symbolSize |-> size,
     quietZoneSize |-> quietZoneSize]

\* A get that reads the grid without the offset of the quiet zone.
get_noOffset(m, x, y) == m.module[y + 1][x + 1]

get(m, x, y) == m.module[y + m.quietZoneSize + 1][x + m.quietZoneSize + 1]

empty(m, x, y) == ~m.isUsed[y + m.quietZoneSize + 1][x + m.quietZoneSize + 1]

\* The coordinates of the symbol, without the quiet zone.
symbolArea(m) == (0..(m.symbolSize - 1)) \X (0..(m.symbolSize - 1))

numEmptyModules(m) ==
    Cardinality({c \in symbolArea(m) :
        ~m.isUsed[c[2] + m.quietZoneSize + 1][c[1] + m.quietZoneSize + 1]})

set(m, x, y, v) ==
    [m EXCEPT !.module[y + m.quietZoneSize + 1][x + m.quietZoneSize + 1] = v,
              !.isUsed[y + m.quietZoneSize + 1][x + m.quietZoneSize + 1] = TRUE]

\* A grid after rows were written to it from row `from` of the grid on:
\* `values` holds what is written to each row, from place `at` of the row
\* on.
rowsWritten(grid, from, at, values) ==
    LET rowWritten(gridRow, rowValues) ==
            SubSeq(gridRow, 1, at) \o rowValues
            \o SubSeq(gridRow, at + Len(rowValues) + 1, Len(gridRow))
    IN  SubSeq(grid, 1, from)
        \o [j \in 1..Len(values) |-> rowWritten(grid[from + j], values[j])]
        \o SubSeq(grid, from + Len(values) + 1, Len(grid))

\* set2dPattern: set(x + i, y + j, value) for every value of every row.
set2dPattern(m, x, y, v) ==
    [m EXCEPT
       !.module = rowsWritten(m.module, y + m.quietZoneSize,
                              x + m.quietZoneSize, v),
       !.isUsed = rowsWritten(m.isUsed, y + m.quietZoneSize,
                              x + m.quietZoneSize,
                              [j \in 1..Len(v) |-> [i \in 1..Len(v[j]) |-> TRUE]])]

\* bitmap: the rows of module.
bitmap(m) == m.module

penaltyWeight1 == 3

penaltyWeight2 == 3

penaltyWeight3 == 40

penaltyWeight4 == 10

\* Column x and row y of the symbol, as get reads them.
column(m, x) == AsSeq([k \in 1..m.symbolSize |-> get(m, x, k - 1)])

row(m, y) == AsSeq([k \in 1..m.symbolSize |-> get(m, k - 1, y)])

\* The inner loop of penalty1 over a line (a column or a row): st holds the
\* place k in the line, lastValue, count and the penalty of the line so far.
RECURSIVE penalty1Line(_, _)
penalty1Line(line, st) ==
    IF st.k > Len(line) THEN st.penalty
    ELSE penalty1Line(line,
             IF line[st.k] # st.lastValue
             THEN [k |-> st.k + 1, lastValue |-> line[st.k], count |-> 1,
                   penalty |-> st.penalty]
             ELSE [k |-> st.k + 1, lastValue |-> st.lastValue,
                   count |-> st.count + 1,
                   penalty |-> st.penalty +
                       (IF st.count + 1 = 6 THEN penaltyWeight1 + 1
                        ELSE IF st.count + 1 > 6 THEN 1 ELSE 0)])

penalty1(m) ==
    LET ofLine(line) ==
            penalty1Line(line, [k |-> 2, lastValue |-> line[1], count |-> 1,
                                penalty |-> 0])
    IN  SumSeq([k \in 1..m.symbolSize |-> ofLine(column(m, k - 1))])
        + SumSeq([k \in 1..m.symbolSize |-> ofLine(row(m, k - 1))])

penalty2(m) ==
    penaltyWeight2 *
    Cardinality({c \in (1..(m.symbolSize - 1)) \X (1..(m.symbolSize - 1)) :
                    /\ get(m, c[1], c[2]) = get(m, c[1] - 1, c[2])
                    /\ get(m, c[1], c[2]) = get(m, c[1], c[2] - 1)
                    /\ get(m, c[1], c[2]) = get(m, c[1] - 1, c[2] - 1)})

\* The inner loop of penalty3 over a line: st holds the place k, bitBuffer
\* and the penalty of the line so far.  bitBuffer is an int16, of which the
\* masks keep the low bits: it is shifted, bitBuffer <<= 1, and for a dark
\* module bitBuffer |= 1; then the switch adds a penalty for 0x05d and 0x5d0
\* in the low eleven bits, and at the end of the line for 0x5d in the low
\* seven.
RECURSIVE penalty3Line(_, _)
penalty3Line(line, st) ==
    IF st.k > Len(line) THEN st.penalty
    ELSE LET bitBuffer == (2 * st.bitBuffer + bit(line[st.k])) % 65536
         IN  penalty3Line(line,
                 IF \/ bitBuffer % 2048 = 93
                    \/ bitBuffer % 2048 = 1488
                    \/ (st.k = Len(line) /\ bitBuffer % 128 = 93)
                 THEN [k |-> st.k + 1, bitBuffer |-> 255,
                       penalty |-> st.penalty + penaltyWeight3]
                 ELSE [k |-> st.k + 1, bitBuffer |-> bitBuffer,
                       penalty |-> st.penalty])

penalty3(m) ==
    LET ofLine(line) ==
            penalty3Line(line, [k |-> 1, bitBuffer |-> 0, penalty |-> 0])
    IN  SumSeq([k \in 1..m.symbolSize |-> ofLine(row(m, k - 1))])
        + SumSeq([k \in 1..m.symbolSize |-> ofLine(column(m, k - 1))])

\* penalty4, for symbolSize >= 5 (numModules / 20 is 0 below that).
penalty4(m) ==
    LET numModules == m.symbolSize * m.symbolSize
        numDarkModules ==
            Cardinality({c \in symbolArea(m) : get(m, c[1], c[2])})
        numDarkModuleDeviation ==
            IF numModules \div 2 - numDarkModules < 0
            THEN -1 * (numModules \div 2 - numDarkModules)
            ELSE numModules \div 2 - numDarkModules
    IN  penaltyWeight4 * (numDarkModuleDeviation \div (numModules \div 20))

penaltyScore(m) == penalty1(m) + penalty2(m) + penalty3(m) + penalty4(m)

(***************************************************************************)
(* The specification of the symbol: a new symbol, then writes with set and *)
(* set2dPattern.  symWritten keeps the modules written, symInRange whether *)
(* every write so far was inside the symbol, symWrites counts the writes.  *)
(***************************************************************************)
SymbolSizes == {5, 6, 8, 21}

QuietZoneSizes == {0, 4}

MaxWrites == 2

\* The rows of the patterns written: a row of two, a square of four, and
\* the seven modules 1011101.
SymPatterns ==
    { << <<TRUE, FALSE>> >>,
      << <<TRUE, TRUE>>, <<FALSE, TRUE>> >>,
      << <<TRUE, FALSE, TRUE, TRUE, TRUE, FALSE, TRUE>> >> }

\* The places writes are made at: the corners of the symbol, the places
\* before its first column, and the fifth column.
SymXs(m) == {-1, 0, 4, m.symbolSize - 1}

SymYs(m) == {0, m.symbolSize - 1}

\* The modules a pattern covers at x, y: set2dPattern, called at x, y with
\* the rows v, sets the module at (i, j) when row j - y of v has an element
\* i - x.
patternArea(x, y, v) ==
    UNION {{<<x + i - 1, y + j - 1>> : i \in 1..Len(v[j])} : j \in 1..Len(v)}

\* Whether a module is in the grid (a write outside of it is an index out
\* of range).
inGrid(m, c) ==
    /\ c[1] + m.quietZoneSize \in 0..(m.size - 1)
    /\ c[2] + m.quietZoneSize \in 0..(m.size - 1)

SymInit ==
    /\ sym \in {newSymbol(s, q) : s \in SymbolSizes, q \in QuietZoneSizes}
    /\ symWritten = {}
    /\ symInRange = TRUE
    /\ symWrites = 0

SymIdle ==
    /\ sym = newSymbol(5, 0)
    /\ symWritten = {}
    /\ symInRange = TRUE
    /\ symWrites = 0

SymSet(x, y, v) ==
    /\ symWrites < MaxWrites
    /\ inGrid(sym, <<x, y>>)
    /\ sym' = set(sym, x, y, v)
    /\ symWritten' = symWritten \cup {<<x, y>>}
    /\ symInRange' = (symInRange /\ <<x, y>> \in symbolArea(sym))
    /\ symWrites' = symWrites + 1
    /\ UNCHANGED <<newVars, encVars, rsVars, qrVars, dataVars, bitsVars>>

SymSet2dPattern(x, y, v) ==
    /\ symWrites < MaxWrites
    /\ \A c \in patternArea(x, y, v) : inGrid(sym, c)
    /\ sym' = set2dPattern(sym, x, y, v)
    /\ symWritten' = symWritten \cup patternArea(x, y, v)
    /\ symInRange' =
           (symInRange /\ patternArea(x, y, v) \subseteq symbolArea(sym))
    /\ symWrites' = symWrites + 1
    /\ UNCHANGED <<newVars, encVars, rsVars, qrVars, dataVars, bitsVars>>

(***************************************************************************)
(* Claims about the symbol.                                                *)
(***************************************************************************)
\* The places of the grid that are in the quiet zone.
quietZoneArea(m) ==
    {g \in (0..(m.size - 1)) \X (0..(m.size - 1)) :
        <<g[1] - m.quietZoneSize, g[2] - m.quietZoneSize>> \notin symbolArea(m)}

\* The symbol without its quiet zone: the modules of the symbol area alone.
inner(m) ==
    [module |-> [y \in 1..m.symbolSize |-> [x \in 1..m.symbolSize |->
                    m.module[y + m.quietZoneSize][x + m.quietZoneSize]]],
     isUsed |-> [y \in 1..m.symbolSize |-> [x \in 1..m.symbolSize |->
                    m.isUsed[y + m.quietZoneSize][x + m.quietZoneSize]]],
     size |-> m.symbolSize,
     symbolSize |-> m.symbolSize,
     quietZoneSize |-> 0]

quietZoneIntact(m) ==
    /\ \A g \in quietZoneArea(m) :
           ~m.module[g[2] + 1][g[1] + 1] /\ ~m.isUsed[g[2] + 1][g[1] + 1]
    /\ m.size = m.symbolSize + 2 * m.quietZoneSize
    /\ Len(m.module) = m.size
    /\ \A gy \in 1..m.size : Len(m.module[gy]) = m.size

countsInnerOnly(m) ==
    /\ numEmptyModules(m) = m.symbolSize * m.symbolSize - Cardinality(symWritten)
    /\ penalty1(m) = penalty1(inner(m))
    /\ penalty2(m) = penalty2(inner(m))
    /\ penalty3(m) = penalty3(inner(m))
    /\ penalty4(m) = penalty4(inner(m))

\* C6: after any writes with set and set2dPattern inside the symbol, every
\* module of the quiet zone is light and unused, the side of the grid is
\* size + 2 * quietZoneSize, and numEmptyModules and the four penalties are
\* those of the symbol area alone.
C6_QuietZoneInvariant ==
    symInRange => (quietZoneIntact(sym) /\ countsInnerOnly(sym))

\* A symbol with a quiet zone of four, written with set and with
\* set2dPattern: a dark module at its last column.
C6_Witness ==
    /\ symInRange
    /\ symWrites = 2
    /\ sym.quietZoneSize = 4
    /\ Cardinality(symWritten) = 5
    /\ get(sym, sym.symbolSize - 1, sym.symbolSize - 1)

\* The symbol with every module of the symbol area flipped.
flipped(m) ==
    [m EXCEPT !.module = [gy \in 1..m.size |-> [gx \in 1..m.size |->
        IF <<gx - 1 - m.quietZoneSize, gy - 1 - m.quietZoneSize>>
               \in symbolArea(m)
        THEN ~m.module[gy][gx] ELSE m.module[gy][gx]]]]

\* C10: penalty4 of a symbol is penalty4 of the symbol with every module of
\* the symbol area flipped.
C10_Penalty4Symmetric ==
    symInRange => penalty4(sym) = penalty4(flipped(sym))

\* The modules of the run of equal modules that starts at place a of a line.
runLength(line, a) ==
    Cardinality({k \in a..Len(line) : \A j \in a..k : line[j] = line[a]})

\* Rule 1 as specified, for a line: w1 + (L - 5) for every maximal run of
\* L >= 5 equal modules.
specifiedPenalty1Line(line) ==
    SumSeq([a \in 1..Len(line) |->
               IF /\ (a = 1 \/ line[a - 1] # line[a])
                  /\ runLength(line, a) >= 5
               THEN penaltyWeight1 + (runLength(line, a) - 5)
               ELSE 0])

\* C13: penalty1 is the sum, over the rows and the columns of the symbol
\* area, over every maximal run of L >= 5 modules of the same colour, of
\* w1 + (L - 5): 3 for a run of five, 4 for a run of six, and so on.
C13_Penalty1CountsRunsFromFive ==
    penalty1(sym)
      = SumSeq([k \in 1..sym.symbolSize |->
                   specifiedPenalty1Line(row(sym, k - 1))])
        + SumSeq([k \in 1..sym.symbolSize |->
                     specifiedPenalty1Line(column(sym, k - 1))])

\* The eleven modules 10111010000 and 00001011101, and the seven 1011101.
finderLike ==
    {<<TRUE, FALSE, TRUE, TRUE, TRUE, FALSE, TRUE, FALSE, FALSE, FALSE, FALSE>>,
     <<FALSE, FALSE, FALSE, FALSE, TRUE, FALSE, TRUE, TRUE, TRUE, FALSE, TRUE>>}

\* Rule 3 as specified, for a line: w3 for every eleven modules in a row
\* that form one of the two patterns, and w3 for 1011101 at the end of the
\* line where the last eleven modules form none.
specifiedPenalty3Line(line) ==
    penaltyWeight3 *
    (Cardinality({a \in 1..(Len(line) - 10) :
                     SubSeq(line, a, a + 10) \in finderLike})
     + (IF /\ Len(line) >= 7
           /\ SubSeq(line, Len(line) - 6, Len(line))
                = <<TRUE, FALSE, TRUE, TRUE, TRUE, FALSE, TRUE>>
           /\ ~(Len(line) >= 11
                /\ SubSeq(line, Len(line) - 10, Len(line)) \in finderLike)
        THEN 1 ELSE 0))

\* C14: penalty3 is w3 = 40 for every eleven modules in a row, in a row or
\* a column of the symbol area, that form 10111010000 or 00001011101,
\* those that overlap one another too, and besides these only for 1011101
\* at the very end of a line; 1011101 at the start of a line, before
\* eleven modules are read, is no match.
C14_Penalty3CountsEveryOccurrence ==
    penalty3(sym)
      = SumSeq([k \in 1..sym.symbolSize |->
                   specifiedPenalty3Line(row(sym, k - 1))])
        + SumSeq([k \in 1..sym.symbolSize |->
                     specifiedPenalty3Line(column(sym, k - 1))])

(***************************************************************************)
(* version.go: the versions of the QRCode life cycle (1 to 5).             *)
(***************************************************************************)
\* A group of numBlocks blocks of numCodewords codewords each, of which
\* numDataCodewords are data.
blockGroup(numBlocks, numCodewords, dataCodewords) ==
    [numBlocks |-> numBlocks, numCodewords |-> numCodewords,
     numDataCodewords |-> dataCodewords]

\* The block groups of versions 1 to 5 at the levels L, M, Q, H.
versionBlocks ==
    << << <<blockGroup(1, 26, 19)>>, <<blockGroup(1, 26, 16)>>,
          <<blockGroup(1, 26, 13)>>, <<blockGroup(1, 26, 9)>> >>,
       << <<blockGroup(1, 44, 34)>>, <<blockGroup(1, 44, 28)>>,
          <<blockGroup(1, 44, 22)>>, <<blockGroup(1, 44, 16)>> >>,
       << <<blockGroup(1, 70, 55)>>, <<blockGroup(1, 70, 44)>>,
          <<blockGroup(2, 35, 17)>>, <<blockGroup(2, 35, 13)>> >>,
       << <<blockGroup(1, 100, 80)>>, <<blockGroup(2, 50, 32)>>,
          <<blockGroup(2, 50, 24)>>, <<blockGroup(4, 25, 9)>> >>,
       << <<blockGroup(1, 134, 108)>>, <<blockGroup(2, 67, 43)>>,
          <<blockGroup(2, 33, 15), blockGroup(2, 34, 16)>>,
          <<blockGroup(2, 33, 11), blockGroup(2, 34, 12)>> >> >>

\* The qrCodeVersion of a version number in 1..5 at a level.
qrCodeVersion(version, l) ==
    [level |-> l, version |-> version,
     numRemainderBits |-> IF version = 1 THEN 0 ELSE 7,
     block |-> versionBlocks[version][levelIndex(l)]]

\* qrCodeVersion.numDataBits: 8 times the data codewords of the blocks.
versionNumDataBits(v) ==
    8 * SumSeq([k \in 1..Len(v.block) |->
                   v.block[k].numBlocks * v.block[k].numDataCodewords])

symbolSize(v) == 21 + 4 * (v.version - 1)

numTerminatorBitsRequired(v, numDataBitsUsed) ==
    Min(4, versionNumDataBits(v) - numDataBitsUsed)

numBitsToPadToCodeword(v, numDataBitsUsed) == (8 - (numDataBitsUsed % 8)) % 8

\* The two bits of a level in the format information.
levelBits(l) ==
    CASE l = "Low" -> 1
      [] l = "Medium" -> 0
      [] l = "High" -> 3
      [] l = "Highest" -> 2

formatInfoLengthBits == 15

\* The format information of the five bits d (the level, then the mask): d
\* followed by the remainder of d x^10 by 0x537, xor 0x5412, for d in 0..31.
formatBitSequence ==
    <<
      21522, 20773, 24188, 23371, 17913, 16590, 20375, 19104,
      30660, 29427, 32170, 30877, 26159, 25368, 27713, 26998,
      5769, 5054, 7399, 6608, 1890, 597, 3340, 2107,
      13663, 12392, 16177, 14854, 9396, 8579, 11994, 11245
    >>

\* qrCodeVersion.formatInfo: the fifteen bits for a mask, as a Bitset.
formatInfo(v, maskPattern) ==
    AppendUint32(BitsetNew(<<>>),
                 formatBitSequence[8 * levelBits(v.level) + maskPattern + 1],
                 formatInfoLengthBits).val

(***************************************************************************)
(* regular_symbol.go: the symbol of a version, a mask and the data.        *)
(***************************************************************************)
finderPatternSize == 7

finderPattern ==
    << <<TRUE, TRUE, TRUE, TRUE, TRUE, TRUE, TRUE>>,
       <<TRUE, FALSE, FALSE, FALSE, FALSE, FALSE, TRUE>>,
       <<TRUE, FALSE, TRUE, TRUE, TRUE, FALSE, TRUE>>,
       <<TRUE, FALSE, TRUE, TRUE, TRUE, FALSE, TRUE>>,
       <<TRUE, FALSE, TRUE, TRUE, TRUE, FALSE, TRUE>>,
       <<TRUE, FALSE, FALSE, FALSE, FALSE, FALSE, TRUE>>,
       <<TRUE, TRUE, TRUE, TRUE, TRUE, TRUE, TRUE>> >>

\* The separators of a finder pattern: a row and a column of eight light
\* modules.
finderPatternHorizontalBorder == << [i \in 1..8 |-> FALSE] >>

finderPatternVerticalBorder == [i \in 1..8 |-> <<FALSE>>]

alignmentPattern ==
    << <<TRUE, TRUE, TRUE, TRUE, TRUE>>,
       <<TRUE, FALSE, FALSE, FALSE, TRUE>>,
       <<TRUE, FALSE, TRUE, FALSE, TRUE>>,
       <<TRUE, FALSE, FALSE, FALSE, TRUE>>,
       <<TRUE, TRUE, TRUE, TRUE, TRUE>> >>

\* The rows and columns of the centres of the alignment patterns of
\* versions 1 to 5.
alignmentPatternCenter == << <<>>, <<6, 18>>, <<6, 22>>, <<6, 26>>, <<6, 30>> >>

\* A loop of calls of set, none of which writes a module twice: writes is
\* the function from the modules <<x, y>> written to the values written.
setAll(m, writes) ==
    [m EXCEPT
       !.module = AsSeq([gy \in 1..m.size |->
           IF \E c \in DOMAIN writes : c[2] + m.quietZoneSize + 1 = gy
           THEN AsSeq([gx \in 1..m.size |->
                    IF <<gx - 1 - m.quietZoneSize, gy - 1 - m.quietZoneSize>>
                           \in DOMAIN writes
                    THEN writes[<<gx - 1 - m.quietZoneSize,
                                  gy - 1 - m.quietZoneSize>>]
                    ELSE m.module[gy][gx]])
           ELSE m.module[gy]]),
       !.isUsed = AsSeq([gy \in 1..m.size |->
           IF \E c \in DOMAIN writes : c[2] + m.quietZoneSize + 1 = gy
           THEN AsSeq([gx \in 1..m.size |->
                    <<gx - 1 - m.quietZoneSize, gy - 1 - m.quietZoneSize>>
                        \in DOMAIN writes
                    \/ m.isUsed[gy][gx]])
           ELSE m.isUsed[gy]])]

\* The three finder patterns with their separators: top left, top right,
\* bottom left.
addFinderPatterns(m, size) ==
    LET finder(s, x, y, bx, by, cx, cy) ==
            set2dPattern(
                set2dPattern(set2dPattern(s, x, y, finderPattern),
                             bx, by, finderPatternHorizontalBorder),
                cx, cy, finderPatternVerticalBorder)
        topLeft == finder(m, 0, 0, 0, finderPatternSize, finderPatternSize, 0)
        topRight ==
            finder(topLeft, size - finderPatternSize, 0,
                   size - finderPatternSize - 1, finderPatternSize,
                   size - finderPatternSize - 1, 0)
    IN  finder(topRight, 0, size - finderPatternSize,
               0, size - finderPatternSize - 1,
               finderPatternSize, size - finderPatternSize - 1)

\* The alignment patterns: one around every centre <<x, y>> whose module is
\* empty, the centres taken in order.
RECURSIVE addAlignmentLoop(_, _, _)
addAlignmentLoop(m, centers, k) ==
    IF k > Len(centers) * Len(centers) THEN m
    ELSE addAlignmentLoop(
             IF empty(m, centers[((k - 1) \div Len(centers)) + 1],
                         centers[((k - 1) % Len(centers)) + 1])
             THEN set2dPattern(m,
                      centers[((k - 1) \div Len(centers)) + 1] - 2,
                      centers[((k - 1) % Len(centers)) + 1] - 2,
                      alignmentPattern)
             ELSE m,
             centers, k + 1)

addAlignmentPatterns(m, version) ==
    addAlignmentLoop(m, alignmentPatternCenter[version.version], 1)

\* The timing patterns: row 6 and column 6 between the finder patterns,
\* dark at the even places.
addTimingPatterns(m, size) ==
    setAll(m,
        [c \in {<<i, finderPatternSize - 1>> :
                   i \in (finderPatternSize + 1)..(size - finderPatternSize - 1)}
               \cup {<<finderPatternSize - 1, i>> :
                   i \in (finderPatternSize + 1)..(size - finderPatternSize - 1)}
         |-> (c[1] + c[2]) % 2 = 0])

\* The format information around the finder patterns, then the module that
\* is always dark.  formatInfoModules: <<x, y, i>> for the module of bit i.
addFormatInfo(m, size, f) ==
    LET formatInfoModules ==
            {<<size - i - 1, finderPatternSize + 1, i>> : i \in 0..7}
            \cup {<<finderPatternSize + 1, i, i>> : i \in 0..5}
            \cup {<<finderPatternSize + 1, finderPatternSize, 6>>,
                  <<finderPatternSize + 1, finderPatternSize + 1, 7>>,
                  <<finderPatternSize, finderPatternSize + 1, 8>>}
            \cup {<<14 - i, finderPatternSize + 1, i>> : i \in 9..14}
            \cup {<<finderPatternSize + 1, size - finderPatternSize + i - 8,
                    i>> : i \in 8..14}
    IN  set(setAll(m,
                [c \in {<<t[1], t[2]>> : t \in formatInfoModules} |->
                    At(f, formatInfoLengthBits - 1
                          - (CHOOSE t \in formatInfoModules :
                                t[1] = c[1] /\ t[2] = c[2])[3]).val]),
            finderPatternSize + 1, size - finderPatternSize - 1, TRUE)

\* Versions below 7 have no version information.
addVersionInfo(m, version) == m

\* The mask patterns: whether mask flips the module at x, y.
maskAt(mask, x, y) ==
    CASE mask = 0 -> (y + x) % 2 = 0
      [] mask = 1 -> y % 2 = 0
      [] mask = 2 -> x % 3 = 0
      [] mask = 3 -> (y + x) % 3 = 0
      [] mask = 4 -> ((y \div 2) + (x \div 3)) % 2 = 0
      [] mask = 5 -> ((y * x) % 2) + ((y * x) % 3) = 0
      [] mask = 6 -> (((y * x) % 2) + ((y * x) % 3)) % 2 = 0
      [] mask = 7 -> (((y + x) % 2) + ((y * x) % 3)) % 2 = 0

\* The walk of addData goes through the columns in pairs, from the right,
\* column 6 left out: the left column of pair p (from 0).
pairColumn(size, p) ==
    IF size - 2 - 2 * p >= finderPatternSize THEN size - 2 - 2 * p
    ELSE size - 3 - 2 * p

\* The module the walk is at after w steps in pair p: the right column
\* before the left one, upwards in the even pairs and downwards in the odd.
walkModule(size, p, w) ==
    <<pairColumn(size, p) + 1 - (w % 2),
      IF p % 2 = 0 THEN size - 1 - (w \div 2) ELSE w \div 2>>

\* Whether the walk finds the module of its step w of pair p empty, for
\* every step of every one of the (size - 1) / 2 pairs (the walk writes to
\* no module before it gets to it).
walkEmpty(m, size) ==
    AsSeq([p \in 1..((size - 1) \div 2) |->
        AsSeq([w \in 1..(2 * size) |->
            empty(m, walkModule(size, p - 1, w - 1)[1],
                     walkModule(size, p - 1, w - 1)[2])])])

\* For every step of every pair, the number of empty modules the walk met
\* before it when the module of the step is empty (e says so): the place of
\* the bit of the data the module is for; -1 when it is not empty.
walkPlaces(e) ==
    LET met == AsSeq([p \in 1..Len(e) |->
                   Cardinality({v \in 1..Len(e[p]) : e[p][v]})])
    IN  AsSeq([p \in 1..Len(e) |->
            AsSeq([w \in 1..Len(e[p]) |->
                IF e[p][w]
                THEN SumSeq(SubSeq(met, 1, p - 1))
                     + Cardinality({v \in 1..(w - 1) : e[p][v]})
                ELSE -1])])

\* The place in the data of the bit the walk writes to the module x, y of
\* the symbol, at [y + 1][x + 1]; -1 for a module the walk does not write:
\* one of column 6, one that is not empty (met is -1), or one that the walk
\* gets to after the last bit.
dataIndex(size, data, walked) ==
    LET pairOf(x) == IF x >= finderPatternSize THEN (size - 1 - x) \div 2
                     ELSE (size - 2 - x) \div 2
        met(p, x, y) ==
            walked[p + 1][2 * (IF p % 2 = 0 THEN size - 1 - y ELSE y)
                          + (IF x = pairColumn(size, p) THEN 1 ELSE 0) + 1]
        indexOf(n) == IF n < BitsetLen(data) THEN n ELSE -1
    IN  AsSeq([j \in 1..size |-> AsSeq([i \in 1..size |->
            IF i - 1 = finderPatternSize - 1 THEN -1
            ELSE indexOf(met(pairOf(i - 1), i - 1, j - 1))])])

\* addData: the bits of the data, each xor its mask, in the empty modules
\* the walk meets, in order (the data has no more bits than there are empty
\* modules).
addData(m, size, mask, data) ==
    LET index == dataIndex(size, data, walkPlaces(walkEmpty(m, size)))
        dataModule(x, y) ==
            IF index[y + 1][x + 1] >= 0
            THEN maskAt(mask, x, y) # At(data, index[y + 1][x + 1]).val
            ELSE get(m, x, y)
    IN  [m EXCEPT
           !.module = rowsWritten(m.module, m.quietZoneSize, m.quietZoneSize,
               [j \in 1..size |-> [i \in 1..size |->
                   dataModule(i - 1, j - 1)]]),
           !.isUsed = rowsWritten(m.isUsed, m.quietZoneSize, m.quietZoneSize,
               [j \in 1..size |-> [i \in 1..size |->
                   index[j][i] >= 0 \/ ~empty(m, i - 1, j - 1)]])]

buildRegularSymbol(version, mask, data, margin) ==
    Ok(addData(
           addVersionInfo(
               addFormatInfo(
                   addTimingPatterns(
                       addAlignmentPatterns(
                           addFinderPatterns(
                               newSymbol(symbolSize(version), margin),
                               symbolSize(version)),
                           version),
                       symbolSize(version)),
                   symbolSize(version), formatInfo(version, mask)),
               version),
           symbolSize(version), mask, data))

(***************************************************************************)
(* qrcode.go: encode and what it calls.  A method that changes the QRCode  *)
(* gives the error it returns and the QRCode as the call leaves it.        *)
(***************************************************************************)
\* The QRCode New returns, all its fields there: the data is what encode
\* returned for the encoder of the chosen group, the version is the chosen
\* version, and no symbol is stored yet.
qrCodeOf(n, encoded) ==
    [content |-> n.content, level |-> n.level,
     versionNumber |-> n.versionNumber, Margin |-> n.Margin,
     encoder |-> n.encoder,
     version |-> qrCodeVersion(n.versionNumber, n.level),
     data |-> encoded.val, symbol |-> Nil, mask |-> 0]

\* A terminator of four bits, whatever is asked for.
addTerminatorBits_four(q, numTerminatorBits) ==
    [q EXCEPT !.data = AppendNumBools(q.data, 4, FALSE)]

addTerminatorBits(q, numTerminatorBits) ==
    [q EXCEPT !.data = AppendNumBools(q.data, numTerminatorBits, FALSE)]

\* The pad codewords 0b11101100 and 0b00010001.
padding ==
    <<BitsetNew(<<TRUE, TRUE, TRUE, FALSE, TRUE, TRUE, FALSE, FALSE>>),
      BitsetNew(<<FALSE, FALSE, FALSE, TRUE, FALSE, FALSE, FALSE, TRUE>>)>>

\* The loop of addPadding: st holds the error, the QRCode and i.
RECURSIVE addPaddingLoop(_, _)

\* A loop that does not alternate: the same pad codeword every time.
addPaddingLoop_sameCodeword(st, numBits) ==
    IF st.err # NoError \/ ~(numBits - BitsetLen(st.q.data) >= 8) THEN st
    ELSE addPaddingLoop(
             [err |-> BitsetAppend(st.q.data, padding[st.i + 1]).err,
              q |-> [st.q EXCEPT !.data =
                        BitsetAppend(st.q.data, padding[st.i + 1]).val],
              i |-> st.i],
             numBits)

addPaddingLoop(st, numBits) ==
    IF st.err # NoError \/ ~(numBits - BitsetLen(st.q.data) >= 8) THEN st
    ELSE addPaddingLoop(
             [err |-> BitsetAppend(st.q.data, padding[st.i + 1]).err,
              q |-> [st.q EXCEPT !.data =
                        BitsetAppend(st.q.data, padding[st.i + 1]).val],
              i |-> 1 - st.i],
             numBits)

\* addPadding: nothing for data of numDataBits bits; else the zero bits up
\* to the boundary of a codeword, then the loop, then the check of the
\* length.
addPadding(q) ==
    LET check(st) ==
            IF st.err # NoError THEN [err |-> st.err, q |-> st.q]
            ELSE IF BitsetLen(st.q.data) # versionNumDataBits(q.version)
            THEN [err |-> "BUG: got len %d, expected %d", q |-> st.q]
            ELSE [err |-> NoError, q |-> st.q]
    IN  IF BitsetLen(q.data) = versionNumDataBits(q.version)
        THEN [err |-> NoError, q |-> q]
        ELSE check(addPaddingLoop(
                       [err |-> NoError,
                        q |-> [q EXCEPT !.data =
                                  AppendNumBools(q.data,
                                      numBitsToPadToCodeword(q.version,
                                          BitsetLen(q.data)),
                                      FALSE)],
                        i |-> 0],
                       versionNumDataBits(q.version)))

\* The blocks of a version, in order: for each the group it is of.
RECURSIVE blocksOf(_, _)
blocksOf(groups, g) ==
    IF g > Len(groups) THEN <<>>
    ELSE [j \in 1..groups[g].numBlocks |-> groups[g]] \o blocksOf(groups, g + 1)

\* The first loop of encodeBlocks, over the blocks bs: the data of block k
\* is bits start to end of the data followed by its error correction
\* codewords; st holds the error, end and the blocks.
RECURSIVE splitLoop(_, _, _, _)
splitLoop(q, bs, k, st) ==
    LET encoded(end, data) ==
            IF data.err # NoError THEN [st EXCEPT !.err = data.err]
            ELSE [err |-> NoError, end |-> end,
                  block |-> Append(st.block,
                                   [data |-> data.val,
                                    ecStartOffset |-> end - st.end])]
        split(end, substr) ==
            IF substr.err # NoError THEN [st EXCEPT !.err = substr.err]
            ELSE encoded(end,
                     Encode(substr.val,
                            bs[k].numCodewords - bs[k].numDataCodewords))
    IN  IF k > Len(bs) \/ st.err # NoError THEN st
        ELSE splitLoop(q, bs, k + 1,
                 split(st.end + bs[k].numDataCodewords * 8,
                       Substr(q.data, st.end,
                              st.end + bs[k].numDataCodewords * 8)))

\* The body of the loops that interleave the blocks, for the codeword at
\* bit `from` of block b: st holds result, working and the error that ends
\* encodeBlocks.
combineAppend(st, b, from) ==
    LET appended(r) ==
            IF r.err # NoError THEN [st EXCEPT !.err = r.err]
            ELSE [result |-> r.val, working |-> TRUE, err |-> NoError]
        append(substr) ==
            IF substr.err # NoError THEN [st EXCEPT !.err = substr.err]
            ELSE appended(BitsetAppend(st.result, substr.val))
    IN  append(Substr(b.data, from, from + 8))

\* The codeword at bit i of the data of every block that has one.
RECURSIVE combineDataBlocks(_, _, _, _)

\* A data pass that goes one codeword too far in every block.
combineDataBlocks_oneMore(block, i, j, st) ==
    IF j > Len(block) \/ st.err # NoError THEN st
    ELSE combineDataBlocks(block, i, j + 1,
             IF i > block[j].ecStartOffset THEN st
             ELSE combineAppend(st, block[j], i))

combineDataBlocks(block, i, j, st) ==
    IF j > Len(block) \/ st.err # NoError THEN st
    ELSE combineDataBlocks(block, i, j + 1,
             IF i >= block[j].ecStartOffset THEN st
             ELSE combineAppend(st, block[j], i))

RECURSIVE combineDataLoop(_, _, _)
combineDataLoop(block, i, st) ==
    IF st.err # NoError \/ ~st.working THEN st
    ELSE combineDataLoop(block, i + 8,
             combineDataBlocks(block, i, 1, [st EXCEPT !.working = FALSE]))

\* The error correction codeword at bit i + ecStartOffset of every block
\* that has one.
RECURSIVE combineErrorBlocks(_, _, _, _)
combineErrorBlocks(block, i, j, st) ==
    IF j > Len(block) \/ st.err # NoError THEN st
    ELSE combineErrorBlocks(block, i, j + 1,
             IF i + block[j].ecStartOffset >= BitsetLen(block[j].data) THEN st
             ELSE combineAppend(st, block[j], i + block[j].ecStartOffset))

RECURSIVE combineErrorLoop(_, _, _)
combineErrorLoop(block, i, st) ==
    IF st.err # NoError \/ ~st.working THEN st
    ELSE combineErrorLoop(block, i + 8,
             combineErrorBlocks(block, i, 1, [st EXCEPT !.working = FALSE]))

\* encodeBlocks: the codewords of the blocks and of their error correction,
\* interleaved, then the remainder bits.
encodeBlocks(q) ==
    LET remainder(st) ==
            IF st.err # NoError THEN Fail(st.err, Nil)
            ELSE Ok(AppendNumBools(st.result, q.version.numRemainderBits,
                                   FALSE))
        errors(block, st) ==
            IF st.err # NoError THEN Fail(st.err, Nil)
            ELSE remainder(combineErrorLoop(block, 0,
                                            [st EXCEPT !.working = TRUE]))
        combine(split) ==
            IF split.err # NoError THEN Fail(split.err, Nil)
            ELSE errors(split.block,
                        combineDataLoop(split.block, 0,
                            [result |-> BitsetNew(<<>>), working |-> TRUE,
                             err |-> NoError]))
    IN  combine(splitLoop(q, blocksOf(q.version.block, 1), 1,
                          [err |-> NoError, end |-> 0, block |-> <<>>]))

numMasks == 8

\* The loop of encode over the masks, s holding the symbol buildRegularSymbol
\* gives for every mask and p its penalty score; st holds the error, the
\* QRCode, the local penalty and, for every mask gone through, the symbol
\* built for it and its penalty score.
RECURSIVE maskLoop(_, _, _, _)
maskLoop(st, s, p, mask) ==
    IF ~(mask < numMasks) \/ st.err # NoError THEN st
    ELSE maskLoop(
             IF s[mask + 1].err # NoError
             THEN [st EXCEPT !.err = s[mask + 1].err]
             ELSE IF numEmptyModules(s[mask + 1].val) # 0
             THEN [st EXCEPT !.err =
                      "bug: numEmptyModules is %d (expected 0) (version=%d)"]
             ELSE IF st.q.symbol = Nil \/ p[mask + 1] < st.penalty
             THEN [err |-> NoError,
                   q |-> [st.q EXCEPT !.symbol = Ref(s[mask + 1].val),
                                      !.mask = mask],
                   penalty |-> p[mask + 1],
                   s |-> Append(st.s, s[mask + 1].val),
                   p |-> Append(st.p, p[mask + 1])]
             ELSE [st EXCEPT !.s = Append(st.s, s[mask + 1].val),
                             !.p = Append(st.p, p[mask + 1])],
             s, p, mask + 1)

\* encode from the blocks on: the eight candidates and their scores, then
\* the loop that keeps a symbol and a mask.
encodeMasks(q, encoded) ==
    LET scored(s) ==
            maskLoop([err |-> NoError, q |-> q, penalty |-> 0,
                      s |-> <<>>, p |-> <<>>],
                     s,
                     AsSeq([k \in 1..numMasks |->
                         IF s[k].err # NoError THEN 0
                         ELSE penaltyScore(s[k].val)]),
                     0)
    IN  scored(AsSeq([k \in 1..numMasks |->
                   buildRegularSymbol(q.version, k - 1, encoded, q.Margin)]))

\* QRCode.encode: the terminator, the padding, the blocks, then the eight
\* candidates, of which the QRCode keeps a symbol and a mask.
qrEncode(q) ==
    LET masks(padded, encoded) ==
            IF encoded.err # NoError
            THEN [err |-> encoded.err, q |-> padded.q, penalty |-> 0,
                  s |-> <<>>, p |-> <<>>]
            ELSE encodeMasks(padded.q, encoded.val)
        blocks(padded) ==
            IF padded.err # NoError
            THEN [err |-> padded.err, q |-> padded.q, penalty |-> 0,
                  s |-> <<>>, p |-> <<>>]
            ELSE masks(padded, encodeBlocks(padded.q))
    IN  blocks(addPadding(
                   addTerminatorBits(q,
                       numTerminatorBitsRequired(q.version,
                                                 BitsetLen(q.data)))))

\* QRCode.image, up to the bitmap it draws: what encode returned, the
\* QRCode as encode left it, realSize and the bitmap of the stored symbol;
\* s and p are the candidates of the encode and their penalty scores.
imageOf(r) ==
    IF r.err # NoError
    THEN [err |-> r.err, q |-> r.q, realSize |-> 0, bitmap |-> <<>>,
          s |-> r.s, p |-> r.p]
    ELSE [err |-> NoError, q |-> r.q,
          realSize |-> Deref(r.q.symbol).size,
          bitmap |-> bitmap(Deref(r.q.symbol)),
          s |-> r.s, p |-> r.p]

image(q) == imageOf(qrEncode(q))

(***************************************************************************)
(* The specification of the QRCode: New builds two QRCodes of a content    *)
(* and a level; the second is rendered once, as New left it; then the      *)
(* first, q, is rendered (PNG, JPEG, PDF and SVG all call encode and read  *)
(* the stored symbol) and its Margin is assigned, in any order.            *)
(***************************************************************************)
\* The contents and levels: five digits, two alphanumeric characters and a
\* byte, which New places in version 1, the empty content, and a content
\* longer than version 40 holds.
QrInputs ==
    { << <<<<49, 5>>>>, "Low" >>,
      << <<<<65, 1>>, <<49, 1>>>>, "Highest" >>,
      << <<<<97, 1>>>>, "Medium" >>,
      << <<>>, "Low" >>,
      << <<<<97, 2954>>>>, "Low" >> }

QrMargins == {0, 1, DefaultMargin}

MaxRenders == 2

QrInit ==
    /\ qrInput = Nil
    /\ qrNewErr = NoError
    /\ qrc = Nil
    /\ qrTwin = Nil
    /\ qrTwinOut = Nil
    /\ qrRenders = 0
    /\ qrFirst = Nil
    /\ qrLast = Nil

\* The variables of the QRCode when another part of the program is looked
\* at.
QrIdle == QrInit

\* The QRCode of what New returned, Nil for an error.
qrCodeNew(c, r) ==
    IF r.err # NoError THEN Nil
    ELSE Ref(qrCodeOf(Deref(r.q),
                      encode(newDataEncoder(Deref(r.q).encoder), c)))

QrNew(c, l) ==
    LET returned(r) ==
            /\ qrInput' = Ref(<<c, l>>)
            /\ qrNewErr' = r.err
            /\ qrc' = qrCodeNew(c, r)
            /\ qrTwin' = qrCodeNew(c, r)
    IN
    /\ qrInput = Nil
    /\ returned(New(c, l))
    /\ UNCHANGED <<qrTwinOut, qrRenders, qrFirst, qrLast>>
    /\ UNCHANGED <<newVars, encVars, rsVars, symVars, dataVars, bitsVars>>

\* What a render gave: the error, the bitmap drawn, its side, and of the
\* QRCode after the call the mask, the data and the Margin.
rendered(r) ==
    [err |-> r.err, bitmap |-> r.bitmap, realSize |-> r.realSize,
     mask |-> r.q.mask, data |-> r.q.data, Margin |-> r.q.Margin]

QrRenderTwin ==
    LET drawn(r) ==
            /\ qrTwin' = Ref(r.q)
            /\ qrTwinOut' = Ref(rendered(r))
    IN
    /\ qrTwin # Nil
    /\ qrTwinOut = Nil
    /\ drawn(image(Deref(qrTwin)))
    /\ UNCHANGED <<qrInput, qrNewErr, qrc, qrRenders, qrFirst, qrLast>>
    /\ UNCHANGED <<newVars, encVars, rsVars, symVars, dataVars, bitsVars>>

\* q.Margin = margin
QrSetMargin(margin) ==
    /\ qrc # Nil
    /\ qrTwinOut # Nil
    /\ qrc' = Ref([Deref(qrc) EXCEPT !.Margin = margin])
    /\ UNCHANGED <<qrInput, qrNewErr, qrTwin, qrTwinOut, qrRenders, qrFirst,
                   qrLast>>
    /\ UNCHANGED <<newVars, encVars, rsVars, symVars, dataVars, bitsVars>>

QrRender ==
    LET drawn(r) ==
            /\ qrc' = Ref(r.q)
            /\ qrFirst' = IF qrFirst = Nil THEN Ref(rendered(r)) ELSE qrFirst
            /\ qrLast' = Ref([out |-> rendered(r), s |-> r.s, p |-> r.p])
    IN
    /\ qrc # Nil
    /\ qrTwinOut # Nil
    /\ qrRenders < MaxRenders
    /\ qrRenders' = qrRenders + 1
    /\ drawn(image(Deref(qrc)))
    /\ UNCHANGED <<qrInput, qrNewErr, qrTwin, qrTwinOut>>
    /\ UNCHANGED <<newVars, encVars, rsVars, symVars, dataVars, bitsVars>>

(***************************************************************************)
(* Claims about the QRCode.                                                *)
(***************************************************************************)
\* Two renders gave the same bitmap, mask and symbol size.
sameRender(a, b) ==
    /\ a.err = NoError /\ b.err = NoError
    /\ a.bitmap = b.bitmap
    /\ a.mask = b.mask
    /\ a.realSize = b.realSize

leastPenaltyMask(p) ==
    CHOOSE k \in 0..(numMasks - 1) :
        /\ \A j \in 0..(numMasks - 1) : p[k + 1] <= p[j + 1]
        /\ \A j \in 0..(k - 1) : p[j + 1] > p[k + 1]

\* C5: after an encode that returned no error, the mask of the QRCode is
\* the least of the masks whose candidates score the least penalty among
\* the eight candidates the encode built, and the stored symbol is the
\* candidate of that mask.
C5_StoredSymbolIsLeastPenaltyCandidate ==
    (qrLast # Nil /\ Deref(qrLast).out.err = NoError) =>
        /\ Len(Deref(qrLast).p) = numMasks
        /\ Deref(qrc).mask = leastPenaltyMask(Deref(qrLast).p)
        /\ Deref(qrc).symbol = Ref(Deref(qrLast).s[Deref(qrc).mask + 1])

\* C17: the symbol every render uses has the side symbolSize + 2 * Margin,
\* with the Margin of the QRCode at that call: a Margin assigned after a
\* render changes the side and the quiet zone of the next bitmap.
C17_RenderUsesMarginOfTheCall ==
    (qrLast # Nil /\ Deref(qrLast).out.err = NoError) =>
        /\ Deref(qrLast).out.realSize
             = symbolSize(Deref(qrc).version) + 2 * Deref(qrLast).out.Margin
        /\ Len(Deref(qrLast).out.bitmap) = Deref(qrLast).out.realSize
        /\ Deref(Deref(qrc).symbol).quietZoneSize = Deref(qrLast).out.Margin

(***************************************************************************)
(* The specification of the data of a QRCode: a QRCode of a version and a  *)
(* level whose data is an encoded bit stream of some length; the first     *)
(* lines of encode add the terminator and the padding, then encodeBlocks   *)
(* is called.  dtOrig keeps the data before the padding, dtPadErr and      *)
(* dtOut are Nil until the calls.                                          *)
(***************************************************************************)
\* The versions and levels: one block, one block of few codewords, two
\* blocks of the same size, and two groups of two blocks (15 and 16 data
\* codewords).
DataVersions ==
    {<<1, "Low">>, <<1, "Highest">>, <<3, "Highest">>, <<5, "High">>}

\* The lengths of the encoded data, for a version of n data bits: at most
\* twenty codewords less than n (none in version 1), around a codeword
\* boundary there, and from n - 12 to n.
DataLengths(n) ==
    {(IF n > 160 THEN n - 160 ELSE 0) + x : x \in {0, 1, 5, 8, 13}}
    \cup {n - 12, n - 9, n - 8, n - 7, n - 4, n - 3, n - 1, n}

\* The bits of the encoded data: every bit, every second, every third set.
DataPeriods == {1, 2, 3}

dataQRCode(v, bools) ==
    [content |-> <<>>, level |-> v.level, versionNumber |-> v.version,
     Margin |-> DefaultMargin, encoder |-> dataEncoderType1To9,
     version |-> v, data |-> BitsetNew(bools), symbol |-> Nil, mask |-> 0]

DataInit ==
    /\ \E in \in DataVersions :
         \E n \in DataLengths(versionNumDataBits(qrCodeVersion(in[1], in[2]))) :
           \E p \in DataPeriods :
              dtQ = dataQRCode(qrCodeVersion(in[1], in[2]),
                               [i \in 1..n |-> (i - 1) % p = 0])
    /\ dtOrig = dtQ.data
    /\ dtPadErr = Nil
    /\ dtOut = Nil

\* The variables of the data when another part of the program is looked
\* at.
DataIdle ==
    /\ dtQ = dataQRCode(qrCodeVersion(1, "Low"), <<>>)
    /\ dtOrig = dtQ.data
    /\ dtPadErr = Nil
    /\ dtOut = Nil

\* encode, up to the error of addPadding.
DataPad ==
    LET padded(r) ==
            /\ dtQ' = r.q
            /\ dtPadErr' = Ref(r.err)
    IN
    /\ dtPadErr = Nil
    /\ padded(addPadding(addTerminatorBits(dtQ,
                  numTerminatorBitsRequired(dtQ.version, BitsetLen(dtQ.data)))))
    /\ UNCHANGED <<dtOrig, dtOut>>
    /\ UNCHANGED <<newVars, encVars, rsVars, symVars, qrVars, bitsVars>>

\* encode, from encodeBlocks to its error.
DataBlocks ==
    /\ dtPadErr = Ref(NoError)
    /\ dtOut = Nil
    /\ dtOut' = Ref(encodeBlocks(dtQ))
    /\ UNCHANGED <<dtQ, dtOrig, dtPadErr>>
    /\ UNCHANGED <<newVars, encVars, rsVars, symVars, qrVars, bitsVars>>

(***************************************************************************)
(* Claims about the data.                                                  *)
(***************************************************************************)
\* The bits a .. b - 1 of a sequence of bits (counted from 0).
bitsFrom(bits, a, b) == SubSeq(bits, a + 1, b)

\* The place the pad codewords start at for data of len bits in a version
\* of n data bits: after the terminator of min(4, n - len) bits, at the
\* next boundary of a codeword.
padStart(n, len) ==
    8 * ((len + Min(4, n - len) + 7) \div 8)

\* The padded data is the original data, zero bits up to padStart, then
\* the pad codewords 11101100 and 00010001 in turn, 11101100 first.
paddedAsSpecified(orig, data, n) ==
    /\ BitsetLen(data) = n
    /\ bitsFrom(BitsOf(data), 0, BitsetLen(orig)) = BitsOf(orig)
    /\ \A i \in BitsetLen(orig)..(padStart(n, BitsetLen(orig)) - 1) :
           BitsOf(data)[i + 1] = 0
    /\ \A k \in 0..((n - padStart(n, BitsetLen(orig))) \div 8 - 1) :
           bitsFrom(BitsOf(data), padStart(n, BitsetLen(orig)) + 8 * k,
                    padStart(n, BitsetLen(orig)) + 8 * k + 8)
             = IF k % 2 = 0 THEN <<1, 1, 1, 0, 1, 1, 0, 0>>
               ELSE <<0, 0, 0, 1, 0, 0, 0, 1>>

\* C11: for every version and every length of the encoded data up to
\* numDataBits, the terminator and addPadding leave data of numDataBits bits
\* exactly, with no error: the encoded data unchanged, zero bits up to the
\* next boundary of a codeword after a terminator of min(4, numDataBits -
\* length) bits, then the pad codewords 11101100 and 00010001 in turn,
\* starting with 11101100.
C11_PaddingFillsToNumDataBits ==
    dtPadErr # Nil =>
        /\ Deref(dtPadErr) = NoError
        /\ paddedAsSpecified(dtOrig, dtQ.data, versionNumDataBits(dtQ.version))

\* Data of 13 bits, some of them set, padded in version 1-L: a terminator of
\* four bits, seven bits to the boundary, and sixteen pad codewords.
C11_Witness ==
    /\ dtPadErr = Ref(NoError)
    /\ BitsetLen(dtOrig) = 13
    /\ BitsOf(dtOrig)[13] = 1
    /\ versionNumDataBits(dtQ.version) = 152
    /\ padStart(152, 13) = 24
    /\ bitsFrom(BitsOf(dtQ.data), 24, 40)
         = <<1, 1, 1, 0, 1, 1, 0, 0, 0, 0, 0, 1, 0, 0, 0, 1>>

\* The codewords before codeword i of block k in an interleaving of the
\* codewords the blocks have, counts[k] for block k: codeword 0 of every
\* block in block order, then codeword 1 of every block that has one, and
\* so on.
placeInTurn(counts, i, k) ==
    Cardinality({c \in (0..(i + 1)) \X (1..Len(counts)) :
                    /\ counts[c[2]] > c[1]
                    /\ (c[1] < i \/ (c[1] = i /\ c[2] < k))})

\* The output of encodeBlocks for the padded data of a version: bs are its
\* blocks, dc and ec the numbers of data and error correction codewords of
\* each, from[k] the bit block k starts at in the data, and coded[k] the
\* bits of the data of block k followed by its Reed-Solomon codewords.
interleavedAsSpecified(data, out, v) ==
    LET bs == blocksOf(v.block, 1)
        dc == AsSeq([k \in 1..Len(bs) |-> bs[k].numDataCodewords])
        ec == AsSeq([k \in 1..Len(bs) |->
                        bs[k].numCodewords - bs[k].numDataCodewords])
        from == AsSeq([k \in 1..Len(bs) |-> 8 * SumSeq(SubSeq(dc, 1, k - 1))])
        dataBits == AsSeq(BitsOf(data))
        outBits == AsSeq(BitsOf(out))
        coded == AsSeq([k \in 1..Len(bs) |->
                     AsSeq(BitsOf(Encode(
                         BitsetNew([i \in 1..(8 * dc[k]) |->
                                       dataBits[from[k] + i] = 1]),
                         ec[k]).val))])
    IN  /\ Len(outBits)
             = 8 * SumSeq([g \in 1..Len(v.block) |->
                              v.block[g].numBlocks * v.block[g].numCodewords])
               + v.numRemainderBits
        /\ SumSeq(dc) * 8 = Len(dataBits)
        /\ \A k \in 1..Len(bs) : \A i \in 0..(dc[k] - 1) :
               bitsFrom(outBits, 8 * placeInTurn(dc, i, k),
                        8 * placeInTurn(dc, i, k) + 8)
                 = bitsFrom(dataBits, from[k] + 8 * i, from[k] + 8 * i + 8)
        /\ \A k \in 1..Len(bs) : \A i \in 0..(ec[k] - 1) :
               bitsFrom(outBits, 8 * (SumSeq(dc) + placeInTurn(ec, i, k)),
                        8 * (SumSeq(dc) + placeInTurn(ec, i, k)) + 8)
                 = bitsFrom(coded[k], 8 * (dc[k] + i), 8 * (dc[k] + i) + 8)
        /\ \A i \in (Len(outBits) - v.numRemainderBits + 1)..Len(outBits) :
               outBits[i] = 0

\* C12: encodeBlocks returns, with no error, the data codewords of the
\* blocks interleaved (codeword 0 of every block in block order, then
\* codeword 1, and so on, a block with no codeword of that index skipped),
\* then the error correction codewords interleaved the same way, then
\* numRemainderBits zero bits: 8 times the codewords of the version plus
\* numRemainderBits bits, every codeword once, the data of the blocks in
\* block order being the padded data.
C12_BlocksInterleavedByCodeword ==
    dtOut # Nil =>
        /\ Deref(dtOut).err = NoError
        /\ interleavedAsSpecified(dtQ.data, Deref(dtOut).val, dtQ.version)

\* Version 5 at level High, four blocks of 15, 15, 16 and 16 data codewords:
\* the last two data codewords of the output are codeword 15 of the third
\* and of the fourth block, the last pad codewords of data that began with
\* a set bit, and the output has 134 codewords and 7 remainder bits.
C12_Witness ==
    /\ dtOut # Nil
    /\ Deref(dtOut).err = NoError
    /\ Len(blocksOf(dtQ.version.block, 1)) = 4
    /\ BitsetLen(dtOrig) = 349
    /\ BitsetLen(Deref(dtOut).val) = 8 * 134 + 7
    /\ BitsOf(Deref(dtOut).val)[1] = 1
    /\ bitsFrom(BitsOf(Deref(dtOut).val), 8 * 60, 8 * 62)
         = bitsFrom(BitsOf(dtQ.data), 8 * 45, 8 * 46)
           \o bitsFrom(BitsOf(dtQ.data), 8 * 61, 8 * 62)
(***************************************************************************)
(* bitset.go, the storage: a Bitset holds a slice, b.bits, of an array.    *)
(* len is the length of the slice and arr the array from the start of the  *)
(* slice on, so Len(arr) is the capacity of the slice.  The operators      *)
(* above work on the view of a Bitset, numBits and the bytes of its slice. *)
(***************************************************************************)
bsView(b) == [numBits |-> b.numBits, bits |-> SubSeq(b.arr, 1, b.len)]

\* The capacity of the array that append allocates for n bytes is the
\* choice of the runtime: n at least, n rounded up to a size class of the
\* allocator in the gc runtime.
sizeClass(n) ==
    CHOOSE c \in {8, 16, 24, 32, 48, 64, 80, 96, 112, 128} :
        /\ c >= n
        /\ \A d \in {8, 16, 24, 32, 48, 64, 80, 96, 112, 128} : d >= n => c <= d

appendCaps(n) == {n, sizeClass(n)}

\* The Bitset b after an append that took its view to nb: the bytes that
\* ensureCapacity appended are written to the array of b when its capacity
\* holds them, and to a new array of capacity cap when not; the loop then
\* writes to the array the slice is of.
bsStored(b, nb, cap) ==
    IF Len(nb.bits) <= Len(b.arr)
    THEN [numBits |-> nb.numBits, len |-> Len(nb.bits),
          arr |-> nb.bits \o SubSeq(b.arr, Len(nb.bits) + 1, Len(b.arr))]
    ELSE [numBits |-> nb.numBits, len |-> Len(nb.bits),
          arr |-> nb.bits \o Zeros(cap - Len(nb.bits))]

\* Whether that append wrote to the array b had.
bsInPlace(b, nb) == Len(nb.bits) <= Len(b.arr)

\* New(v...): the slice make([]byte, 0), then AppendBools.
bsNew(bools, cap) ==
    bsStored([numBits |-> 0, len |-> 0, arr |-> <<>>], BitsetNew(bools), cap)

\* Clone: numBits and from.bits[:], a slice of the same array.
bsClone(from) == [numBits |-> from.numBits, len |-> from.len, arr |-> from.arr]

(***************************************************************************)
(* The specification of the bit buffer: a Bitset src from New, a Bitset    *)
(* cln from Clone(src), appends to either and reads of either.  bsShared   *)
(* tells whether the two slices are of one array; bsHist keeps the bits    *)
(* that were appended to each.                                             *)
(***************************************************************************)
\* The bits New is called with.
BsNewBools == {<<>>, <<TRUE>>, <<TRUE, FALSE, TRUE>>}

\* The bits AppendBools is called with.
BsBools ==
    {<<TRUE>>, <<FALSE, FALSE, FALSE, FALSE, FALSE, FALSE, FALSE, FALSE, TRUE>>}

\* The value and numBits AppendByte is called with.
BsBytes == {<<165, 8>>}

MaxAppends == 2

BsTargets == {"src", "cln"}

BsIndexes(b) == {-9, -1, 0, 8, b.numBits - 1, b.numBits}

BsRanges(b) ==
    {<<-9, 0>>, <<-1, 0>>, <<-3, -3>>, <<2, 1>>,
     <<0, b.numBits>>, <<1, b.numBits>>, <<0, b.numBits + 1>>}

BitsInit ==
    /\ \E bools \in BsNewBools :
          /\ \E cap \in appendCaps(Len(BitsetNew(bools).bits)) :
                bsBufs = [src |-> Ref(bsNew(bools, cap)), cln |-> Nil]
          /\ bsHist = [src |-> bools, cln |-> <<>>]
    /\ bsShared = FALSE
    /\ bsOut = Nil
    /\ bsAppends = 0

BitsIdle ==
    /\ bsBufs = [src |-> Ref(bsNew(<<>>, 0)), cln |-> Nil]
    /\ bsHist = [src |-> <<>>, cln |-> <<>>]
    /\ bsShared = FALSE
    /\ bsOut = Nil
    /\ bsAppends = 0

\* An append to the Bitset t that takes its view to nb and its bits to
\* those it held and bools.  The other Bitset has the writes to an array
\* the two share.
BsAppended(t, nb, bools) ==
    /\ bsBufs[t] # Nil
    /\ bsAppends < MaxAppends
    /\ \E cap \in appendCaps(Len(nb.bits)) :
          bsBufs' =
              [u \in BsTargets |->
                  IF u = t THEN Ref(bsStored(Deref(bsBufs[t]), nb, cap))
                  ELSE IF bsBufs[u] # Nil /\ bsShared
                          /\ bsInPlace(Deref(bsBufs[t]), nb)
                       THEN Ref([Deref(bsBufs[u]) EXCEPT
                                    !.arr = bsStored(Deref(bsBufs[t]), nb, cap).arr])
                  ELSE bsBufs[u]]
    /\ bsShared' = (bsShared /\ bsInPlace(Deref(bsBufs[t]), nb))
    /\ bsHist' = [bsHist EXCEPT ![t] = @ \o bools]
    /\ bsOut' = Nil
    /\ bsAppends' = bsAppends + 1
    /\ UNCHANGED <<newVars, encVars, rsVars, symVars, qrVars, dataVars>>

BsAppendBools(t, bools) ==
    /\ bsBufs[t] # Nil
    /\ BsAppended(t, AppendBools(bsView(Deref(bsBufs[t])), bools), bools)

\* AppendByte: with numBits > 8 the storage has grown and no bit is added.
BsAppendByte(t, value, numBits) ==
    /\ bsBufs[t] # Nil
    /\ BsAppended(t, AppendByte(bsView(Deref(bsBufs[t])), value, numBits).val,
                  IF numBits > 8 THEN <<>> ELSE valueBools(value, numBits))

BsClone ==
    /\ bsBufs.cln = Nil
    /\ bsBufs' = [bsBufs EXCEPT !.cln = Ref(bsClone(Deref(bsBufs.src)))]
    /\ bsHist' = [bsHist EXCEPT !.cln = bsHist.src]
    /\ bsShared' = TRUE
    /\ bsOut' = Nil
    /\ UNCHANGED bsAppends
    /\ UNCHANGED <<newVars, encVars, rsVars, symVars, qrVars, dataVars>>

\* A read of the Bitset t: bsOut keeps the call, the Bitset it was made on
\* and what it returned.
BsRead(t, op, args, res) ==
    /\ bsOut' = Ref([op |-> op, on |-> t, args |-> args,
                     of |-> Deref(bsBufs[t]), res |-> res])
    /\ UNCHANGED <<bsBufs, bsHist, bsShared, bsAppends>>
    /\ UNCHANGED <<newVars, encVars, rsVars, symVars, qrVars, dataVars>>

BsAt(t) ==
    /\ bsBufs[t] # Nil
    /\ \E index \in BsIndexes(Deref(bsBufs[t])) :
          BsRead(t, "At", <<index>>, At(bsView(Deref(bsBufs[t])), index))

BsByteAt(t) ==
    /\ bsBufs[t] # Nil
    /\ \E index \in BsIndexes(Deref(bsBufs[t])) :
          BsRead(t, "ByteAt", <<index>>,
                 ByteAt(bsView(Deref(bsBufs[t])), index))

BsSubstr(t) ==
    /\ bsBufs[t] # Nil
    /\ \E r \in BsRanges(Deref(bsBufs[t])) :
          BsRead(t, "Substr", r, Substr(bsView(Deref(bsBufs[t])), r[1], r[2]))

BsNewGFPoly(t) ==
    /\ bsBufs[t] # Nil
    /\ BsRead(t, "newGFPolyFromData", <<>>,
              newGFPolyFromData(bsView(Deref(bsBufs[t]))))

(***************************************************************************)
(* Claims about the bit buffer.                                            *)
(***************************************************************************)
\* The up to eight bits of b from index on, the first as 0x80, the bits
\* after the last as 0.
leftAligned(b, index) ==
    SumSeq([k \in 1..Min(8, b.numBits - index) |->
               bit(At(b, index + k - 1).val) * Pow2(8 - k)])

\* C15: ByteAt(i) with fewer than eight bits from i on gives those bits
\* left-aligned, bit i as 0x80 and the low bits zero, and so the term of
\* lowest degree of newGFPolyFromData of a buffer whose length is not a
\* multiple of 8 is its last group padded with zeros on the right.
C15_ByteAtLeftAligned ==
    bsOut # Nil =>
        /\ (/\ Deref(bsOut).op = "ByteAt"
            /\ Deref(bsOut).args[1] >= 0
            /\ Deref(bsOut).args[1] < Deref(bsOut).of.numBits
            /\ Deref(bsOut).of.numBits - Deref(bsOut).args[1] < 8)
           => Deref(bsOut).res
                = Ok(leftAligned(bsView(Deref(bsOut).of), Deref(bsOut).args[1]))
        /\ (/\ Deref(bsOut).op = "newGFPolyFromData"
            /\ Deref(bsOut).of.numBits % 8 # 0)
           => /\ Deref(bsOut).res.err = NoError
              /\ Deref(bsOut).res.val[1]
                   = leftAligned(bsView(Deref(bsOut).of),
                                 8 * (Deref(bsOut).of.numBits \div 8))

\* Whether a read returned an error and the zero value.
reportsError(res, zero) ==
    /\ ~Panics(res)
    /\ res.err # NoError
    /\ res.val = zero

\* C16: At(i) and ByteAt(i) return an error and no value for every i
\* outside 0 .. Len - 1, the negative ones included; Substr(s, e) returns an
\* error and no buffer unless 0 <= s <= e <= Len, and when it succeeds a new
\* buffer of e - s bits, bit k that of the source at s + k, the source as
\* it was.
C16_ReadsReportOutOfRange ==
    bsOut # Nil =>
        /\ (/\ Deref(bsOut).op = "At"
            /\ (Deref(bsOut).args[1] < 0
                \/ Deref(bsOut).args[1] >= Deref(bsOut).of.numBits))
           => reportsError(Deref(bsOut).res, FALSE)
        /\ (/\ Deref(bsOut).op = "ByteAt"
            /\ (Deref(bsOut).args[1] < 0
                \/ Deref(bsOut).args[1] >= Deref(bsOut).of.numBits))
           => reportsError(Deref(bsOut).res, 0)
        /\ (/\ Deref(bsOut).op = "Substr"
            /\ ~(/\ 0 <= Deref(bsOut).args[1]
                 /\ Deref(bsOut).args[1] <= Deref(bsOut).args[2]
                 /\ Deref(bsOut).args[2] <= Deref(bsOut).of.numBits))
           => reportsError(Deref(bsOut).res, Nil)
        /\ (/\ Deref(bsOut).op = "Substr"
            /\ 0 <= Deref(bsOut).args[1]
            /\ Deref(bsOut).args[1] <= Deref(bsOut).args[2]
            /\ Deref(bsOut).args[2] <= Deref(bsOut).of.numBits)
           => /\ Deref(bsOut).res.err = NoError
              /\ Deref(bsOut).res.val.numBits
                   = Deref(bsOut).args[2] - Deref(bsOut).args[1]
              /\ \A k \in 0..(Deref(bsOut).res.val.numBits - 1) :
                    At(Deref(bsOut).res.val, k)
                      = At(bsView(Deref(bsOut).of), Deref(bsOut).args[1] + k)
              /\ Deref(bsBufs[Deref(bsOut).on]) = Deref(bsOut).of

\* Whether the Bitset b holds the bits hist, in order, and zeros in its
\* storage from bit numBits on.
holdsAppended(b, hist) ==
    /\ b.numBits = Len(hist)
    /\ \A i \in 0..(b.numBits - 1) : At(bsView(b), i) = Ok(hist[i + 1])
    /\ \A i \in b.numBits..(8 * b.len - 1) :
          ~bitOf(b.arr[i \div 8 + 1], i % 8)

\* C18: every buffer holds the bits that were appended to it, a clone
\* those of its source at the call of Clone first, and zeros in its storage
\* from bit Len on; an append to the clone changes no bit of the source,
\* and an append to the source no bit of the clone.
C18_ContentIsWhatWasAppended ==
    \A t \in BsTargets :
        bsBufs[t] # Nil => holdsAppended(Deref(bsBufs[t]), bsHist[t])


(***************************************************************************)
(* The specifications: one for each part of the program; the variables of  *)
(* the other parts stay as they are.                                       *)
(***************************************************************************)
InitNew == NewInit /\ EncIdle /\ RsIdle /\ SymIdle /\ QrIdle /\ DataIdle /\ BitsIdle

NextNew == NewCall

SpecNew == InitNew /\ [][NextNew]_vars

InitEnc == EncInit /\ NewIdle /\ RsIdle /\ SymIdle /\ QrIdle /\ DataIdle /\ BitsIdle

NextEnc == EncodeCall

SpecEnc == InitEnc /\ [][NextEnc]_vars

InitRs == RsInit /\ NewIdle /\ EncIdle /\ SymIdle /\ QrIdle /\ DataIdle /\ BitsIdle

NextRs == RsEncodeCall

SpecRS == InitRs /\ [][NextRs]_vars

InitSym == SymInit /\ NewIdle /\ EncIdle /\ RsIdle /\ QrIdle /\ DataIdle /\ BitsIdle

NextSym ==
    \/ \E x \in SymXs(sym), y \in SymYs(sym), v \in BOOLEAN :
          SymSet(x, y, v)
    \/ \E x \in SymXs(sym), y \in SymYs(sym), v \in SymPatterns :
          SymSet2dPattern(x, y, v)

SpecSym == InitSym /\ [][NextSym]_vars

InitQr == QrInit /\ NewIdle /\ EncIdle /\ RsIdle /\ SymIdle /\ DataIdle /\ BitsIdle

NextQr ==
    \/ \E in \in QrInputs : QrNew(in[1], in[2])
    \/ QrRenderTwin
    \/ \E margin \in QrMargins : QrSetMargin(margin)
    \/ QrRender

SpecQR == InitQr /\ [][NextQr]_vars

InitData ==
    DataInit /\ NewIdle /\ EncIdle /\ RsIdle /\ SymIdle /\ QrIdle /\ BitsIdle

NextData == DataPad \/ DataBlocks

SpecData == InitData /\ [][NextData]_vars

InitBits ==
    BitsInit /\ NewIdle /\ EncIdle /\ RsIdle /\ SymIdle /\ QrIdle /\ DataIdle

NextBits ==
    \/ \E t \in BsTargets, bools \in BsBools : BsAppendBools(t, bools)
    \/ \E t \in BsTargets, v \in BsBytes : BsAppendByte(t, v[1], v[2])
    \/ BsClone
    \/ \E t \in BsTargets : BsAt(t)
    \/ \E t \in BsTargets : BsByteAt(t)
    \/ \E t \in BsTargets : BsSubstr(t)
    \/ \E t \in BsTargets : BsNewGFPoly(t)

SpecBits == InitBits /\ [][NextBits]_vars

====
